---- MODULE Spec2Model ----
(***************************************************************************)
(* Trade-simulation and portfolio-accounting engine of the stock research  *)
(* toolkit: optimization/backtest_engine_v2.py (simulate_exit_fixed,       *)
(* simulate_exit_trailing, run_capital_simulation_limited,                 *)
(* calculate_metrics) and backtest_patterns.py (generate_trade_candidates).*)
(*                                                                         *)
(* Prices are integers in units of 0.01 (one cent).  R-multiples are       *)
(* integers in tenths (20 = 2.0).  A net return is the exact fraction      *)
(* [num, den].  Money is in whole currency units; a product with a         *)
(* percentage is floored to a whole unit.  Dates are day ordinals.         *)
(* Python indices are 0-based: At(s, i) is s[i].                           *)
(***************************************************************************)
EXTENDS Integers, Sequences, FiniteSets, TLC

VARIABLES
    mode,             \* which routine the exit run exercises
    path,             \* the symbol's candles: high_np, low_np, close_np, ma_np
    sig,              \* idx (entry_idx or sig_idx), buy_price, stop_price
    params,           \* r_mult, time_exit, trigger_r
    pc,               \* position of the exit routine
    loop,             \* locals of the trailing loop
    result,           \* value returned / candidate appended
    candidates,       \* argument of run_capital_simulation_limited
    spc,              \* position of run_capital_simulation_limited
    ci,               \* 0-based index of the candidate t of the for loop
    current_cash,
    active_positions,
    executed_trades,
    equity_log,       \* history: cash + sum of cost after each release step
    trades,           \* argument of calculate_metrics
    returned,         \* history: the records returned by the calls so far
    mpc,              \* position of the caller of calculate_metrics
    rpc,              \* position of replay_simulation_with_tracking
    current_date,     \* loop variable of its date_range loop (a Timestamp)
    replay_cash,      \* its current_cash
    replay_positions, \* its active_positions
    today_candidates, \* the candidates of current_date still to process
    entries,          \* the entries of current_date so far
    exits,            \* the exits of current_date
    ignored_signals,  \* the candidates of current_date that were passed over
    daily_reports,    \* its return value
    futures,          \* the submitted worker tasks of a parallel driver
    all_results,      \* all_results_map[combo] / final_results
    dpc,              \* position of the driver
    report,           \* final_metrics / the rows written to the report
    groups,           \* argument of PurgedGroupKFold.split: a date per sample
    cv,               \* the PurgedGroupKFold object
    fold,             \* loop variable i of split
    yielded,          \* the folds yielded so far
    kpc               \* position of the split generator

exitVars == <<mode, path, sig, params, pc, loop, result>>
simVars == <<candidates, spc, ci, current_cash, active_positions,
             executed_trades, equity_log>>
metricVars == <<trades, returned, mpc>>
replayVars == <<rpc, current_date, replay_cash, replay_positions,
                today_candidates, entries, exits, ignored_signals,
                daily_reports>>
driverVars == <<futures, all_results, dpc, report>>
splitVars == <<groups, cv, fold, yielded, kpc>>
otherVars == <<replayVars, driverVars, splitVars>>
vars == <<mode, path, sig, params, pc, loop, result, candidates, spc, ci,
          current_cash, active_positions, executed_trades, equity_log,
          trades, returned, mpc, rpc, current_date, replay_cash,
          replay_positions, today_candidates, entries, exits,
          ignored_signals, daily_reports,
          futures, all_results, dpc, report, groups, cv, fold, yielded, kpc>>

-----------------------------------------------------------------------------
(* Bounds of the exit runs *)
MaxLen == 3

(* Program constants *)
FEE_RATE == 1        \* 0.001, in thousandths
TAX_RATE == 3        \* 0.003, in thousandths
RateScale == 1000
RScale == 10         \* R-multiples are in tenths
NaN == 0 - 1         \* np.nan of the indicator column
TimeExitNone == 0 - 1   \* params['time_exit'] is None

Min(a, b) == IF a < b THEN a ELSE b
Max(a, b) == IF a > b THEN a ELSE b

(* s[i] for a Python index i, 0 <= i < len(s) *)
At(s, i) == s[i + 1]

(* Python's s[i] accepts -len(s) <= i < len(s); a negative i counts from the end *)
PyInRange(s, i) == (0 - Len(s)) <= i /\ i < Len(s)
PyAt(s, i) == IF i < 0 THEN s[Len(s) + i + 1] ELSE s[i + 1]

None == [kind |-> "none"]
Error == [kind |-> "error"]

date_list(p) == [j \in 1..Len(p) |-> j]

get_tick_size(price) ==
    IF price < 1000 THEN 1
    ELSE IF price < 5000 THEN 5
    ELSE IF price < 10000 THEN 10
    ELSE IF price < 50000 THEN 50
    ELSE IF price < 100000 THEN 100
    ELSE 500

(* calculate_net_pnl that charges the tax on the buy leg as well *)
calculate_net_pnl_tax_both(buy_price, sell_price) ==
    LET cost == buy_price * (RateScale + FEE_RATE + TAX_RATE)
        proceeds == sell_price * (RateScale - FEE_RATE - TAX_RATE)
    IN [num |-> proceeds - cost, den |-> cost]

calculate_net_pnl(buy_price, sell_price) ==
    LET cost == buy_price * (RateScale + FEE_RATE)
        proceeds == sell_price * (RateScale - FEE_RATE - TAX_RATE)
    IN [num |-> proceeds - cost, den |-> cost]

(* risk * r for an R-multiple r in tenths *)
RTimes(risk, r) == (risk * r) \div RScale

(* hits[0] if hits.size > 0 else np.inf, for the index set hits of np.where *)
Inf == 1000000
FirstOf(hits) ==
    IF hits = {} THEN Inf
    ELSE CHOOSE j \in hits : \A j2 \in hits : j <= j2

(* relative indices of the slice [from, to) *)
SliceIdx(from, to) == 0..(to - from - 1)

-----------------------------------------------------------------------------
(* optimization/backtest_engine_v2.py: simulate_exit_fixed *)

(* simulate_exit_fixed whose window is one candle longer than time_exit *)
simulate_exit_fixed_long(p, entry_idx, buy_price, stop_price, r_mult, time_exit) ==
    LET entry_tick == get_tick_size(buy_price)
        real_buy_price == buy_price + entry_tick
        risk == real_buy_price - stop_price
    IN
    IF risk <= 0 THEN None
    ELSE
    LET target == real_buy_price + RTimes(risk, r_mult)
        path_len == Len(p)
        end_idx == Min(entry_idx + time_exit + 1, path_len)
        stop_i == FirstOf({j \in SliceIdx(entry_idx, end_idx) :
                 At(p, entry_idx + j).low <= stop_price})
        target_i == FirstOf({j \in SliceIdx(entry_idx, end_idx) :
                 At(p, entry_idx + j).high >= target})
        time_exit_taken == stop_i = Inf /\ target_i = Inf
        exit_rel_idx == IF time_exit_taken THEN (end_idx - entry_idx) - 1
                        ELSE IF stop_i < target_i THEN stop_i
                        ELSE target_i
        exit_abs_idx == entry_idx + exit_rel_idx
    IN
    IF ~PyInRange(p, entry_idx) \/ ~PyInRange(p, exit_abs_idx) THEN Error
    ELSE
    LET raw_exit_price == IF time_exit_taken THEN PyAt(p, exit_abs_idx).close
                          ELSE IF stop_i < target_i THEN stop_price
                          ELSE target
    IN [kind |-> "trade",
        entry_date |-> PyAt(date_list(p), entry_idx),
        exit_date |-> PyAt(date_list(p), exit_abs_idx),
        pnl |-> calculate_net_pnl(real_buy_price,
                                  raw_exit_price - get_tick_size(raw_exit_price)),
        duration |-> exit_rel_idx,
        raw_exit_price |-> raw_exit_price]

simulate_exit_fixed(p, entry_idx, buy_price, stop_price, r_mult, time_exit) ==
    LET entry_tick == get_tick_size(buy_price)
        real_buy_price == buy_price + entry_tick
        risk == real_buy_price - stop_price
    IN
    IF risk <= 0 THEN None
    ELSE
    LET target == real_buy_price + RTimes(risk, r_mult)
        path_len == Len(p)
        end_idx == Min(entry_idx + time_exit, path_len)
        stop_i == FirstOf({j \in SliceIdx(entry_idx, end_idx) :
                 At(p, entry_idx + j).low <= stop_price})
        target_i == FirstOf({j \in SliceIdx(entry_idx, end_idx) :
                 At(p, entry_idx + j).high >= target})
        time_exit_taken == stop_i = Inf /\ target_i = Inf
        exit_rel_idx == IF time_exit_taken THEN (end_idx - entry_idx) - 1
                        ELSE IF stop_i < target_i THEN stop_i
                        ELSE target_i
        exit_abs_idx == entry_idx + exit_rel_idx
    IN
    IF time_exit_taken /\ ~PyInRange(p, exit_abs_idx) THEN Error
    ELSE
    LET raw_exit_price == IF time_exit_taken THEN PyAt(p, exit_abs_idx).close
                          ELSE IF stop_i < target_i THEN stop_price
                          ELSE target
        exit_tick == get_tick_size(raw_exit_price)
        real_exit_price == raw_exit_price - exit_tick
        pnl == calculate_net_pnl(real_buy_price, real_exit_price)
    IN
    IF ~PyInRange(p, entry_idx) \/ ~PyInRange(p, exit_abs_idx) THEN Error
    ELSE [kind |-> "trade",
          entry_date |-> PyAt(date_list(p), entry_idx),
          exit_date |-> PyAt(date_list(p), exit_abs_idx),
          pnl |-> pnl,
          duration |-> exit_rel_idx,
          raw_exit_price |-> raw_exit_price]

-----------------------------------------------------------------------------
(* optimization/backtest_engine_v2.py: simulate_exit_trailing, one loop
   iteration.  st holds the locals; c is the candle of day k. *)

(* trailing_day that follows the indicator down: the stop is set to the
   indicator instead of the larger of the two *)
trailing_day_follow(st, c, k, real_buy_price, trigger_price) ==
    IF c.low <= st.current_stop
    THEN [st EXCEPT !.raw_exit_price = st.current_stop,
                    !.exit_rel_idx = k,
                    !.exit_found = TRUE]
    ELSE
    LET trig == ~st.trailing_active /\ c.high >= trigger_price
        active1 == st.trailing_active \/ trig
        stop1 == IF trig THEN real_buy_price ELSE st.current_stop
        stop2 == IF active1 /\ c.ma # NaN THEN c.ma ELSE stop1
    IN [st EXCEPT !.trailing_active = active1,
                  !.current_stop = stop2,
                  !.k = k + 1]

(* trailing_day that stays on the same candle after a day without a stop hit *)
trailing_day_stuck(st, c, k, real_buy_price, trigger_price) ==
    IF c.low <= st.current_stop
    THEN [st EXCEPT !.raw_exit_price = st.current_stop,
                    !.exit_rel_idx = k,
                    !.exit_found = TRUE]
    ELSE
    LET trig == ~st.trailing_active /\ c.high >= trigger_price
        active1 == st.trailing_active \/ trig
        stop1 == IF trig THEN real_buy_price ELSE st.current_stop
        stop2 == IF active1 /\ c.ma # NaN THEN Max(stop1, c.ma) ELSE stop1
    IN [st EXCEPT !.trailing_active = active1,
                  !.current_stop = stop2]

(* trailing_day that follows the indicator before trailing is active *)
trailing_day_always_trail(st, c, k, real_buy_price, trigger_price) ==
    IF c.low <= st.current_stop
    THEN [st EXCEPT !.raw_exit_price = st.current_stop,
                    !.exit_rel_idx = k,
                    !.exit_found = TRUE]
    ELSE
    LET trig == ~st.trailing_active /\ c.high >= trigger_price
        active1 == st.trailing_active \/ trig
        stop1 == IF trig THEN real_buy_price ELSE st.current_stop
        stop2 == IF c.ma # NaN THEN Max(stop1, c.ma) ELSE stop1
    IN [st EXCEPT !.trailing_active = active1,
                  !.current_stop = stop2,
                  !.k = k + 1]

(* trailing_day without the breakeven move: on the trigger day the stop stays
   where it was *)
trailing_day_no_breakeven(st, c, k, real_buy_price, trigger_price) ==
    IF c.low <= st.current_stop
    THEN [st EXCEPT !.raw_exit_price = st.current_stop,
                    !.exit_rel_idx = k,
                    !.exit_found = TRUE]
    ELSE
    LET trig == ~st.trailing_active /\ c.high >= trigger_price
        active1 == st.trailing_active \/ trig
        stop1 == st.current_stop
        stop2 == IF active1 /\ c.ma # NaN THEN Max(stop1, c.ma) ELSE stop1
    IN [st EXCEPT !.trailing_active = active1,
                  !.current_stop = stop2,
                  !.k = k + 1]

trailing_day(st, c, k, real_buy_price, trigger_price) ==
    IF c.low <= st.current_stop
    THEN [st EXCEPT !.raw_exit_price = st.current_stop,
                    !.exit_rel_idx = k,
                    !.exit_found = TRUE]
    ELSE
    LET trig == ~st.trailing_active /\ c.high >= trigger_price
        active1 == st.trailing_active \/ trig
        stop1 == IF trig THEN real_buy_price ELSE st.current_stop
        stop2 == IF active1 /\ c.ma # NaN THEN Max(stop1, c.ma) ELSE stop1
    IN [st EXCEPT !.trailing_active = active1,
                  !.current_stop = stop2,
                  !.k = k + 1]

(* backtest_patterns.py: trailing branch of generate_trade_candidates with
   the ladder, one loop iteration *)

(* ladder_day without the ladder step *)
ladder_day_no_ladder(st, c, k, buy, risk, trigger_r) ==
    IF c.low <= st.current_stop
    THEN [st EXCEPT !.raw_exit_price = st.current_stop,
                    !.exit_rel_idx = k,
                    !.exit_found = TRUE]
    ELSE
    LET trigger_price == buy + RTimes(risk, trigger_r)
        trig == ~st.trailing_active /\ c.high >= trigger_price
        active1 == st.trailing_active \/ trig
        stop1 == IF trig THEN buy ELSE st.current_stop
        stop3 == IF active1 /\ c.ma # NaN THEN Max(stop1, c.ma) ELSE stop1
    IN [st EXCEPT !.trailing_active = active1,
                  !.current_stop = stop3,
                  !.k = k + 1]

ladder_day(st, c, k, buy, risk, trigger_r) ==
    IF c.low <= st.current_stop
    THEN [st EXCEPT !.raw_exit_price = st.current_stop,
                    !.exit_rel_idx = k,
                    !.exit_found = TRUE]
    ELSE
    LET trigger_price == buy + RTimes(risk, trigger_r)
        trig == ~st.trailing_active /\ c.high >= trigger_price
        active1 == st.trailing_active \/ trig
        stop1 == IF trig THEN buy ELSE st.current_stop
        \* r_above_trigger = (h - buy) / risk - trigger_r, scaled by risk * RScale
        r_above_scaled == (c.high - buy) * RScale - trigger_r * risk
        ladder_stop == buy + (r_above_scaled \div (risk * RScale)) * risk
        stop2 == IF active1 /\ r_above_scaled > 0 THEN Max(stop1, ladder_stop) ELSE stop1
        stop3 == IF active1 /\ c.ma # NaN THEN Max(stop2, c.ma) ELSE stop2
    IN [st EXCEPT !.trailing_active = active1,
                  !.current_stop = stop3,
                  !.k = k + 1]

(* Entry check of generate_trade_candidates / process_stock_group_wrapper:
   limit buy within ENTRY_WINDOW rows after the signal row.  Returns the
   entry row entry_abs, or NoEntry. *)
ENTRY_WINDOW == 30
NoEntry == 0 - 1

(* resolve_entry whose window is one row short *)
resolve_entry_short(p, sig_idx, buy) ==
    LET future_end == Min(sig_idx + ENTRY_WINDOW, Len(p))
        entry_rel == FirstOf({j \in SliceIdx(sig_idx + 1, future_end) :
                 At(p, sig_idx + 1 + j).high >= buy})
    IN IF future_end - (sig_idx + 1) <= 0 THEN NoEntry
       ELSE IF entry_rel = Inf THEN NoEntry
       ELSE sig_idx + 1 + entry_rel

resolve_entry(p, sig_idx, buy) ==
    LET future_end == Min(sig_idx + ENTRY_WINDOW + 1, Len(p))
        entry_rel == FirstOf({j \in SliceIdx(sig_idx + 1, future_end) :
                 At(p, sig_idx + 1 + j).high >= buy})
    IN IF future_end - (sig_idx + 1) <= 0 THEN NoEntry
       ELSE IF entry_rel = Inf THEN NoEntry
       ELSE sig_idx + 1 + entry_rel

(* Signal filter of generate_trade_candidates: the polars filter and the
   risk test of the loop *)
signal_passes(buy, stop) ==
    /\ buy > stop
    /\ ~(buy - stop <= 0)

(* Fixed branch of generate_trade_candidates for one signal row *)
generate_fixed(p, sig_idx, buy, stop, r_mult, time_exit) ==
    IF ~signal_passes(buy, stop) THEN None
    ELSE
    LET risk == buy - stop
        entry_abs == resolve_entry(p, sig_idx, buy)
    IN
    IF entry_abs = NoEntry THEN None
    ELSE
    LET target == buy + RTimes(risk, r_mult)
        path_end == IF time_exit # TimeExitNone
                    THEN Min(entry_abs + time_exit, Len(p))
                    ELSE Len(p)
        stop_i == FirstOf({j \in SliceIdx(entry_abs, path_end) :
                 At(p, entry_abs + j).low <= stop})
        target_i == FirstOf({j \in SliceIdx(entry_abs, path_end) :
                 At(p, entry_abs + j).high >= target})
        time_exit_taken == stop_i = Inf /\ target_i = Inf
        exit_abs == IF time_exit_taken THEN path_end - 1
                    ELSE IF stop_i < target_i THEN entry_abs + stop_i
                    ELSE entry_abs + target_i
        raw_exit_price == IF time_exit_taken THEN PyAt(p, exit_abs).close
                          ELSE IF stop_i < target_i THEN stop
                          ELSE target
    IN
    IF exit_abs = 0 - 1 THEN None
    ELSE [kind |-> "trade",
          entry_date |-> At(date_list(p), entry_abs),
          exit_date |-> PyAt(date_list(p), exit_abs),
          pnl |-> [num |-> raw_exit_price - buy, den |-> buy],
          duration |-> exit_abs - entry_abs,
          raw_exit_price |-> raw_exit_price]

-----------------------------------------------------------------------------
(* Inputs of the exit runs *)

BuyPrices == {10000}
StopPrices == {9500, 10000, 10050}
Highs == {10200, 11100, 11300}
Lows == {9400, 9500, 10100}
TrailHighs == {10200, 11300}
TrailLows == {9500, 10100}
Mas == {NaN, 9800, 10600}
MaxTimeExit == 2
DefaultRMult == 20
DefaultTriggerR == 15

Candle(h, l, m) == [high |-> h, low |-> l, close |-> (h + l) \div 2, ma |-> m]
FixedCandles == {Candle(h, l, NaN) : h \in Highs, l \in Lows}
TrailCandles == {Candle(h, l, m) : h \in TrailHighs, l \in TrailLows, m \in Mas}
PathsOf(C) == UNION {[1..n -> C] : n \in 0..MaxLen}

Modes == {"simulate_exit_fixed", "simulate_exit_trailing",
          "generate_fixed", "generate_trailing"}

IdleLoop == [k |-> 0, current_stop |-> 0, trailing_active |-> FALSE,
             exit_found |-> FALSE, raw_exit_price |-> 0,
             exit_rel_idx |-> 0 - 1, entry_abs |-> 0]

MetricsIdle ==
    /\ trades = <<>>
    /\ returned = <<>>
    /\ mpc = "idle"

ReplayIdle ==
    /\ rpc = "idle"
    /\ current_date = 0
    /\ replay_cash = 0
    /\ replay_positions = <<>>
    /\ today_candidates = <<>>
    /\ entries = <<>>
    /\ exits = <<>>
    /\ ignored_signals = <<>>
    /\ daily_reports = <<>>

DriverIdle ==
    /\ futures = <<>>
    /\ all_results = <<>>
    /\ dpc = "idle"
    /\ report = <<>>

SplitIdle ==
    /\ groups = <<>>
    /\ cv = [n_splits |-> 0, embargo_pct |-> 0, embargo_days |-> 0]
    /\ fold = 0
    /\ yielded = <<>>
    /\ kpc = "idle"

OtherIdle == ReplayIdle /\ DriverIdle /\ SplitIdle

SimIdle ==
    /\ candidates = <<>>
    /\ spc = "idle"
    /\ ci = 0
    /\ current_cash = 0
    /\ active_positions = <<>>
    /\ executed_trades = <<>>
    /\ equity_log = <<>>

InitExit ==
    /\ mode \in Modes
    /\ path \in (IF mode \in {"simulate_exit_fixed", "generate_fixed"}
                 THEN PathsOf(FixedCandles) ELSE PathsOf(TrailCandles))
    /\ \E idx \in 0..MaxLen, b \in BuyPrices, s \in StopPrices :
          \* entry_idx is any row up to one past the end; sig_idx is a row
          /\ IF mode \in {"simulate_exit_fixed", "simulate_exit_trailing"}
             THEN idx <= Len(path) ELSE idx < Len(path)
          /\ sig = [idx |-> idx, buy_price |-> b, stop_price |-> s]
    /\ \E te \in (0..MaxTimeExit) \cup {TimeExitNone} :
          \* the trailing routines take no time_exit
          /\ mode \in {"simulate_exit_trailing", "generate_trailing"}
                => te = TimeExitNone
          /\ mode = "simulate_exit_fixed" => te # TimeExitNone
          /\ params = [r_mult |-> DefaultRMult, time_exit |-> te,
                       trigger_r |-> DefaultTriggerR]
    /\ pc = "call"
    /\ loop = IdleLoop
    /\ result = None
    /\ SimIdle
    /\ MetricsIdle
    /\ OtherIdle

-----------------------------------------------------------------------------
(* Actions of the exit runs *)

SimulateExitFixed ==
    /\ pc = "call" /\ mode = "simulate_exit_fixed"
    /\ result' = simulate_exit_fixed(path, sig.idx, sig.buy_price, sig.stop_price,
                                     params.r_mult, params.time_exit)
    /\ pc' = "done"
    /\ UNCHANGED <<mode, path, sig, params, loop>>
    /\ UNCHANGED simVars
    /\ UNCHANGED metricVars
    /\ UNCHANGED otherVars

GenerateFixed ==
    /\ pc = "call" /\ mode = "generate_fixed"
    /\ result' = generate_fixed(path, sig.idx, sig.buy_price, sig.stop_price,
                                params.r_mult, params.time_exit)
    /\ pc' = "done"
    /\ UNCHANGED <<mode, path, sig, params, loop>>
    /\ UNCHANGED simVars
    /\ UNCHANGED metricVars
    /\ UNCHANGED otherVars

(* simulate_exit_trailing up to the loop *)
TrailingBegin ==
    /\ pc = "call" /\ mode = "simulate_exit_trailing"
    /\ LET real_buy_price == sig.buy_price + get_tick_size(sig.buy_price)
           risk == real_buy_price - sig.stop_price
       IN IF risk <= 0
          THEN /\ result' = None
               /\ pc' = "done"
               /\ loop' = loop
          ELSE /\ loop' = [IdleLoop EXCEPT !.current_stop = sig.stop_price,
                                           !.entry_abs = sig.idx]
               /\ pc' = "loop"
               /\ result' = result
    /\ UNCHANGED <<mode, path, sig, params>>
    /\ UNCHANGED simVars
    /\ UNCHANGED metricVars
    /\ UNCHANGED otherVars

TrailingDay ==
    /\ pc = "loop" /\ mode = "simulate_exit_trailing"
    /\ ~loop.exit_found
    /\ loop.k < Len(path) - loop.entry_abs
    /\ LET real_buy_price == sig.buy_price + get_tick_size(sig.buy_price)
           risk == real_buy_price - sig.stop_price
           trigger_price == real_buy_price + RTimes(risk, params.trigger_r)
       IN loop' = trailing_day(loop, At(path, loop.entry_abs + loop.k), loop.k,
                               real_buy_price, trigger_price)
    /\ UNCHANGED <<mode, path, sig, params, pc, result>>
    /\ UNCHANGED simVars
    /\ UNCHANGED metricVars
    /\ UNCHANGED otherVars

(* simulate_exit_trailing after the loop *)
TrailingEnd ==
    /\ pc = "loop" /\ mode = "simulate_exit_trailing"
    /\ loop.exit_found \/ loop.k >= Len(path) - loop.entry_abs
    /\ LET entry_idx == loop.entry_abs
           path_len == Max(Len(path) - entry_idx, 0)
           real_buy_price == sig.buy_price + get_tick_size(sig.buy_price)
       IN
       IF ~loop.exit_found /\ path_len = 0
       THEN result' = Error      \* path_close[-1] of an empty slice
       ELSE
       LET exit_rel_idx == IF loop.exit_found THEN loop.exit_rel_idx ELSE path_len - 1
           raw_exit_price == IF loop.exit_found THEN loop.raw_exit_price
                             ELSE At(path, Len(path) - 1).close
           real_exit_price == raw_exit_price - get_tick_size(raw_exit_price)
           exit_abs_idx == entry_idx + exit_rel_idx
       IN result' = [kind |-> "trade",
                     entry_date |-> PyAt(date_list(path), entry_idx),
                     exit_date |-> PyAt(date_list(path), exit_abs_idx),
                     pnl |-> calculate_net_pnl(real_buy_price, real_exit_price),
                     duration |-> exit_rel_idx,
                     raw_exit_price |-> raw_exit_price]
    /\ pc' = "done"
    /\ UNCHANGED <<mode, path, sig, params, loop>>
    /\ UNCHANGED simVars
    /\ UNCHANGED metricVars
    /\ UNCHANGED otherVars

(* generate_trade_candidates, trailing mode, for one signal row up to the loop *)
LadderBegin ==
    /\ pc = "call" /\ mode = "generate_trailing"
    /\ LET entry_abs == resolve_entry(path, sig.idx, sig.buy_price)
       IN IF ~signal_passes(sig.buy_price, sig.stop_price) \/ entry_abs = NoEntry
          THEN /\ result' = None
               /\ pc' = "done"
               /\ loop' = loop
          ELSE /\ loop' = [IdleLoop EXCEPT !.current_stop = sig.stop_price,
                                           !.entry_abs = entry_abs]
               /\ pc' = "loop"
               /\ result' = result
    /\ UNCHANGED <<mode, path, sig, params>>
    /\ UNCHANGED simVars
    /\ UNCHANGED metricVars
    /\ UNCHANGED otherVars

LadderDay ==
    /\ pc = "loop" /\ mode = "generate_trailing"
    /\ ~loop.exit_found
    /\ loop.k < Len(path) - loop.entry_abs
    /\ loop' = ladder_day(loop, At(path, loop.entry_abs + loop.k), loop.k,
                          sig.buy_price, sig.buy_price - sig.stop_price,
                          params.trigger_r)
    /\ UNCHANGED <<mode, path, sig, params, pc, result>>
    /\ UNCHANGED simVars
    /\ UNCHANGED metricVars
    /\ UNCHANGED otherVars

LadderEnd ==
    /\ pc = "loop" /\ mode = "generate_trailing"
    /\ loop.exit_found \/ loop.k >= Len(path) - loop.entry_abs
    /\ LET entry_abs == loop.entry_abs
           buy == sig.buy_price
           exit_abs == IF loop.exit_found THEN entry_abs + loop.exit_rel_idx
                       ELSE (Len(path) - entry_abs) - 1 + entry_abs
           raw_exit_price == IF loop.exit_found THEN loop.raw_exit_price
                             ELSE At(path, Len(path) - 1).close
       IN result' = IF exit_abs = 0 - 1 THEN None
                    ELSE [kind |-> "trade",
                          entry_date |-> At(date_list(path), entry_abs),
                          exit_date |-> PyAt(date_list(path), exit_abs),
                          pnl |-> [num |-> raw_exit_price - buy, den |-> buy],
                          duration |-> exit_abs - entry_abs,
                          raw_exit_price |-> raw_exit_price]
    /\ pc' = "done"
    /\ UNCHANGED <<mode, path, sig, params, loop>>
    /\ UNCHANGED simVars
    /\ UNCHANGED metricVars
    /\ UNCHANGED otherVars

NextExit ==
    \/ SimulateExitFixed
    \/ GenerateFixed
    \/ TrailingBegin
    \/ TrailingDay
    \/ TrailingEnd
    \/ LadderBegin
    \/ LadderDay
    \/ LadderEnd

SpecExit == InitExit /\ [][NextExit]_vars

(* Calls of simulate_exit_trailing with positive risk.  A call that has
   started runs on: the interpreter takes the next step of the routine
   whenever there is one. *)
InitTrailing ==
    /\ InitExit
    /\ mode = "simulate_exit_trailing"
    /\ sig.buy_price + get_tick_size(sig.buy_price) - sig.stop_price > 0

NextTrailing ==
    \/ TrailingBegin
    \/ TrailingDay
    \/ TrailingEnd

SpecTrailing == InitTrailing /\ [][NextTrailing]_vars /\ WF_vars(NextTrailing)

-----------------------------------------------------------------------------
(* optimization/optimize_hyperparameters.py: process_stock_group_wrapper,
   from a detected pattern on row i to the appended result.  The rows that
   only feed the detector (the WINDOW_DAYS before i) are left out. *)
WrapperRMult == 20
WrapperTimeExit == 20

process_signal(p, i, buy_price, stop_price) ==
    LET entry_abs == resolve_entry(p, i, buy_price)
    IN IF entry_abs = NoEntry THEN None
       ELSE simulate_exit_fixed(p, entry_abs, buy_price, stop_price,
                                WrapperRMult, WrapperTimeExit)

ProcessSignal ==
    /\ pc = "call" /\ mode = "process_stock_group_wrapper"
    /\ result' = process_signal(path, sig.idx, sig.buy_price, sig.stop_price)
    /\ pc' = "done"
    /\ UNCHANGED <<mode, path, sig, params, loop>>
    /\ UNCHANGED simVars
    /\ UNCHANGED metricVars
    /\ UNCHANGED otherVars

(* Entry runs: long price paths on which the high reaches the buy price on
   at most two rows *)
MaxRows == 33
QuietCandle == [high |-> 9900, low |-> 9600, close |-> 9800, ma |-> NaN]
TouchCandle == [high |-> 10000, low |-> 9600, close |-> 9900, ma |-> NaN]
BreakCandle == [high |-> 10200, low |-> 9700, close |-> 10100, ma |-> NaN]

SparsePath(n, a, b) ==
    [j \in 1..n |-> IF j = a THEN TouchCandle
                    ELSE IF j = b THEN BreakCandle
                    ELSE QuietCandle]

InitEntry ==
    /\ mode \in {"generate_fixed", "process_stock_group_wrapper"}
    /\ \E n \in 1..MaxRows :
          /\ \E a \in 0..n, b \in 0..n :
                /\ a # 0 => b # a
                /\ path = SparsePath(n, a, b)
          /\ \E i \in 0..(n - 1) :
                sig = [idx |-> i, buy_price |-> 10000, stop_price |-> 9500]
    /\ params = [r_mult |-> DefaultRMult, time_exit |-> MaxTimeExit,
                 trigger_r |-> DefaultTriggerR]
    /\ pc = "call"
    /\ loop = IdleLoop
    /\ result = None
    /\ SimIdle
    /\ MetricsIdle
    /\ OtherIdle

NextEntry ==
    \/ GenerateFixed
    \/ ProcessSignal

SpecEntry == InitEntry /\ [][NextEntry]_vars

-----------------------------------------------------------------------------
(* optimization/backtest_engine_v2.py: run_capital_simulation_limited.
   A candidate is [sid, entry_date, exit_date, pnl]; in the portfolio runs
   pnl is an integer percentage. *)
INITIAL_CAPITAL == 1000000
MAX_POSITIONS == 10
POSITION_SIZE_PCT == 10    \* 0.10, in hundredths
PctScale == 100

RECURSIVE SumInts(_)
SumInts(s) ==
    IF s = <<>> THEN 0 ELSE Head(s) + SumInts(Tail(s))

(* list.sort(key=entry_date): stable *)
(* an insertion that puts the new element before the elements of its date *)
RECURSIVE InsertBeforeTies(_, _)
InsertBeforeTies(sorted, t) ==
    IF sorted = <<>> THEN <<t>>
    ELSE IF t.entry_date <= sorted[Len(sorted)].entry_date
         THEN Append(InsertBeforeTies(SubSeq(sorted, 1, Len(sorted) - 1), t),
                     sorted[Len(sorted)])
         ELSE Append(sorted, t)

RECURSIVE InsertByEntryDate(_, _)
InsertByEntryDate(sorted, t) ==
    IF sorted = <<>> THEN <<t>>
    ELSE IF t.entry_date < sorted[Len(sorted)].entry_date
         THEN Append(InsertByEntryDate(SubSeq(sorted, 1, Len(sorted) - 1), t),
                     sorted[Len(sorted)])
         ELSE Append(sorted, t)

RECURSIVE SortByEntryDate(_)
SortByEntryDate(s) ==
    IF s = <<>> THEN <<>>
    ELSE InsertByEntryDate(SortByEntryDate(SubSeq(s, 1, Len(s) - 1)), s[Len(s)])

(* release test of step 1 *)
is_released_early(p, today) == p.exit_date < today

is_released(p, today) == p.exit_date <= today

(* step 2 *)
total_equity_cash_only(cash, positions) == cash

total_equity(cash, positions) ==
    cash + SumInts([j \in 1..Len(positions) |-> positions[j].cost])

(* step 3 *)
position_size_of(equity) == (equity * POSITION_SIZE_PCT) \div PctScale

(* step 4 *)
can_enter_no_slot_limit(positions, cash, position_size) ==
    cash >= position_size

can_enter_strict_cash(positions, cash, position_size) ==
    Len(positions) < MAX_POSITIONS /\ cash > position_size

can_enter_no_cash_check(positions, cash, position_size) ==
    Len(positions) < MAX_POSITIONS

can_enter(positions, cash, position_size) ==
    Len(positions) < MAX_POSITIONS /\ cash >= position_size

profit_of(position_size, t) == (position_size * t.pnl) \div PctScale

new_position_profit_only(position_size, t) ==
    [exit_date |-> t.exit_date,
     return_cash |-> profit_of(position_size, t),
     cost |-> position_size]

new_position(position_size, t) ==
    [exit_date |-> t.exit_date,
     return_cash |-> position_size + profit_of(position_size, t),
     cost |-> position_size]

trade_record(position_size, t) ==
    [sid |-> t.sid, entry_date |-> t.entry_date, exit_date |-> t.exit_date,
     pnl |-> t.pnl, cost |-> position_size,
     profit |-> profit_of(position_size, t)]

(* optimization/backtest_engine_v2.py: calculate_metrics, the equity curve
   at date d: INITIAL_CAPITAL plus the cumulated daily_pnl up to d *)
equity_at(tl, d) ==
    INITIAL_CAPITAL
      + SumInts([j \in 1..Len(tl) |->
                     IF tl[j].exit_date <= d THEN tl[j].profit ELSE 0])

(* Entry of the function up to the loop: empty input, sort, locals *)
SimStart ==
    /\ spc = "call"
    /\ IF candidates = <<>>
       THEN /\ spc' = "done"
            /\ UNCHANGED <<candidates, current_cash>>
       ELSE /\ candidates' = SortByEntryDate(candidates)
            /\ current_cash' = INITIAL_CAPITAL
            /\ spc' = "release"
    /\ executed_trades' = <<>>
    /\ active_positions' = <<>>
    /\ ci' = 0
    /\ equity_log' = <<>>
    /\ UNCHANGED exitVars
    /\ UNCHANGED metricVars
    /\ UNCHANGED otherVars

(* Step 1 of the iteration for candidate t = candidates[ci] *)
Release ==
    /\ spc = "release"
    /\ LET today == At(candidates, ci).entry_date
           still_active == SelectSeq(active_positions,
                                     LAMBDA p : ~is_released(p, today))
           cash == current_cash
                     + SumInts([j \in 1..Len(active_positions) |->
                                  IF is_released(active_positions[j], today)
                                  THEN active_positions[j].return_cash ELSE 0])
       IN /\ current_cash' = cash
          /\ active_positions' = still_active
          /\ equity_log' = Append(equity_log, total_equity(cash, still_active))
    /\ spc' = "enter"
    /\ UNCHANGED <<candidates, ci, executed_trades>>
    /\ UNCHANGED exitVars
    /\ UNCHANGED metricVars
    /\ UNCHANGED otherVars

(* Steps 2 to 4 of the iteration, and the return after the last candidate *)
Enter ==
    /\ spc = "enter"
    /\ LET t == At(candidates, ci)
           equity == total_equity(current_cash, active_positions)
           position_size == position_size_of(equity)
       IN IF can_enter(active_positions, current_cash, position_size)
          THEN /\ current_cash' = current_cash - position_size
               /\ active_positions' =
                     Append(active_positions, new_position(position_size, t))
               /\ executed_trades' =
                     Append(executed_trades, trade_record(position_size, t))
          ELSE UNCHANGED <<current_cash, active_positions, executed_trades>>
    /\ ci' = ci + 1
    /\ spc' = IF ci + 1 < Len(candidates) THEN "release" ELSE "done"
    /\ UNCHANGED <<candidates, equity_log>>
    /\ UNCHANGED exitVars
    /\ UNCHANGED metricVars
    /\ UNCHANGED otherVars

(* Inputs of the portfolio runs: every short list over a small domain, the
   worked example, and long lists made of runs of four kinds of candidate *)
MaxCands == 2
MaxDate == 3
MaxRunLen == 13
Sids == {"A", "B"}
PnlPcts == {0 - 2, 5}

Cand(s, en, ex, p) == [sid |-> s, entry_date |-> en, exit_date |-> ex, pnl |-> p]

ShortCands ==
    {Cand(s, en, ex, p) : s \in Sids, en \in 1..MaxDate, ex \in 1..MaxDate,
                          p \in PnlPcts}
ShortLists ==
    UNION {[1..n -> {c \in ShortCands : c.exit_date >= c.entry_date}] :
              n \in 0..MaxCands}

ExampleList == <<Cand("A", 2, 10, 5), Cand("B", 3, 5, 0 - 2)>>

Winner == Cand("A", 1, 2, 100)
Loser == Cand("B", 1, 2, 0 - 100)
Holder == Cand("A", 1, 3, 0)
Late == Cand("B", 2, 3, 0)
Rep(c, n) == [j \in 1..n |-> c]
RunLists ==
    {Rep(Late, t) \o Rep(Winner, w) \o Rep(Loser, l) \o Rep(Holder, h) :
        w \in 0..MaxRunLen, l \in 0..MaxRunLen, h \in 0..MaxRunLen,
        t \in 0..MaxRunLen}

ExitIdle ==
    /\ mode = "run_capital_simulation_limited"
    /\ path = <<>>
    /\ sig = [idx |-> 0, buy_price |-> 0, stop_price |-> 0]
    /\ params = [r_mult |-> 0, time_exit |-> 0, trigger_r |-> 0]
    /\ pc = "idle"
    /\ loop = IdleLoop
    /\ result = None

InitSim ==
    /\ candidates \in ShortLists \cup {ExampleList}
                        \cup {r \in RunLists : Len(r) <= MaxRunLen}
    /\ spc = "call"
    /\ ci = 0
    /\ current_cash = 0
    /\ active_positions = <<>>
    /\ executed_trades = <<>>
    /\ equity_log = <<>>
    /\ ExitIdle
    /\ MetricsIdle
    /\ OtherIdle

NextSim ==
    \/ SimStart
    \/ Release
    \/ Enter

SpecSim == InitSim /\ [][NextSim]_vars

-----------------------------------------------------------------------------
(* Cost runs: simulate_exit_fixed and simulate_exit_trailing from entry_idx 0
   on paths whose prices are set relative to a buy price taken from every
   tick band and from both sides of every band limit *)
CostBuys == {500, 999, 1000, 4995, 5000, 9990, 10000, 49950, 50000, 99900,
             100000, 150000}
CostUpPcts == {2, 13}        \* high above the buy price, in percent
CostDownPcts == {0 - 1, 6}   \* low below the buy price, in percent
CostStop(b) == b - (b * 5) \div PctScale     \* 5 percent below the buy price
CostMa(b) == b + (b * 6) \div PctScale       \* 6 percent above the buy price

CostCandle(b, up, down, m) ==
    Candle(b + (b * up) \div PctScale, b - (b * down) \div PctScale, m)
CostCandles(b, mas) ==
    {CostCandle(b, up, down, m) : up \in CostUpPcts, down \in CostDownPcts,
                                  m \in mas}
CostPaths(C) == UNION {[1..n -> C] : n \in 1..MaxLen}

InitCost ==
    /\ mode \in {"simulate_exit_fixed", "simulate_exit_trailing"}
    /\ \E b \in CostBuys :
          /\ sig = [idx |-> 0, buy_price |-> b,
                    stop_price |-> CostStop(b)]
          /\ path \in (IF mode = "simulate_exit_fixed"
                       THEN CostPaths(CostCandles(b, {NaN}))
                       ELSE CostPaths(CostCandles(b, {NaN, CostMa(b)})))
    /\ \E te \in 1..MaxTimeExit :
          /\ mode = "simulate_exit_trailing" => te = 1
          /\ params = [r_mult |-> DefaultRMult,
                       time_exit |-> IF mode = "simulate_exit_trailing"
                                     THEN TimeExitNone ELSE te,
                       trigger_r |-> DefaultTriggerR]
    /\ pc = "call"
    /\ loop = IdleLoop
    /\ result = None
    /\ SimIdle
    /\ MetricsIdle
    /\ OtherIdle

NextCost ==
    \/ SimulateExitFixed
    \/ TrailingBegin
    \/ TrailingDay
    \/ TrailingEnd

SpecCost == InitCost /\ [][NextCost]_vars

-----------------------------------------------------------------------------
(* calculate_metrics of optimization/backtest_engine_v2.py and of
   backtest_patterns.py, and calculate_portfolio_metrics of
   archive/backtest_experiments/backtest_engine.py.
   A Timestamp is a number of seconds.  A sum of daily returns is an exact
   fraction in lowest terms.  The Sharpe ratio is kept as [nan, sign]: whether
   it is NaN and, if not, the sign of its exact value (0 for exactly zero);
   rounding to two decimals is not represented.  ann_return and max_dd are
   functions of the fields days, final_equity and equity of the record. *)
RISK_FREE_RATE == 2        \* 0.02, in hundredths
SecondsPerDay == 86400

MetricModes == {"calculate_metrics", "calculate_portfolio_metrics",
                "backtest_patterns.calculate_metrics"}

Abs(x) == IF x < 0 THEN 0 - x ELSE x
Sign(x) == IF x < 0 THEN 0 - 1 ELSE IF x > 0 THEN 1 ELSE 0

RECURSIVE GCD(_, _)
GCD(a, b) == IF b = 0 THEN a ELSE GCD(b, a % b)

Frac(n, d) ==
    LET g == GCD(Abs(n), d)
    IN [num |-> n \div g, den |-> d \div g]
FracAdd(x, y) == Frac(x.num * y.den + y.num * x.den, x.den * y.den)

(* pd.to_datetime of a date *)
to_datetime(d) == d * SecondsPerDay

(* df = pd.DataFrame(trades), then the date columns replaced in df *)
DataFrame(tl, m) ==
    [j \in 1..Len(tl) |->
        IF m = "backtest_patterns.calculate_metrics"
        THEN [tl[j] EXCEPT !.exit_date = to_datetime(@)]
        ELSE [tl[j] EXCEPT !.exit_date = to_datetime(@),
                           !.entry_date = to_datetime(@)]]

(* the caller's list after the call, if the frame's rows were the list's own
   records *)
trades_aliased(tl, df) == df

(* the caller's list after the call: no statement writes to it *)
trades_after(tl, df) == tl

min_date(df, m) ==
    LET ds == {IF m = "backtest_patterns.calculate_metrics"
               THEN to_datetime(df[j].entry_date)
               ELSE df[j].entry_date : j \in 1..Len(df)}
    IN CHOOSE d \in ds : \A d2 \in ds : d <= d2
max_date(df) ==
    LET ds == {df[j].exit_date : j \in 1..Len(df)}
    IN CHOOSE d \in ds : \A d2 \in ds : d >= d2

daily_pnl(df, ts) ==
    SumInts([j \in 1..Len(df) |->
                IF df[j].exit_date = ts THEN df[j].profit ELSE 0])

(* equity over pd.date_range(ts, last), prev being the value of the day
   before: the cumulated daily_pnl plus INITIAL_CAPITAL *)
RECURSIVE equity_from(_, _, _, _)
equity_from(df, ts, last, prev) ==
    IF ts > last THEN <<>>
    ELSE LET e == prev + daily_pnl(df, ts)
         IN <<e>> \o equity_from(df, ts + SecondsPerDay, last, e)

(* daily_ret = equity.pct_change().fillna(0): its sum over the first k days *)
RECURSIVE sum_returns(_, _)
sum_returns(equity, k) ==
    IF k <= 1 THEN [num |-> 0, den |-> 1]
    ELSE IF equity[k] = equity[k - 1] THEN sum_returns(equity, k - 1)
    ELSE FracAdd(sum_returns(equity, k - 1),
                 Frac(equity[k] - equity[k - 1], equity[k - 1]))

(* daily_ret.std(): NaN for a single day, zero when no day differs *)
std_of(equity) ==
    IF Len(equity) <= 1 THEN "nan"
    ELSE IF \A k \in 1..Len(equity) : equity[k] = equity[1] THEN "zero"
    ELSE "positive"

(* sign of daily_ret.mean() - RISK_FREE_RATE / 252 *)
excess_sign(equity) ==
    LET total == sum_returns(equity, Len(equity))
    IN Sign(total.num * 100 * 252 - RISK_FREE_RATE * Len(equity) * total.den)

SharpeZero == [nan |-> FALSE, sign |-> 0]
SharpeNaN == [nan |-> TRUE, sign |-> 0]

(* backtest_engine_v2: ... if std > 0 else 0 *)
sharpe_if_positive(equity) ==
    IF std_of(equity) = "positive"
    THEN [nan |-> FALSE, sign |-> excess_sign(equity)]
    ELSE SharpeZero

(* backtest_patterns and the archived engine: if std == 0: sharpe = 0 *)
sharpe_unless_zero(equity) ==
    IF std_of(equity) = "zero" THEN SharpeZero
    ELSE IF std_of(equity) = "nan" THEN SharpeNaN
    ELSE [nan |-> FALSE, sign |-> excess_sign(equity)]

(* longest run of the value v in flags *)
RECURSIVE max_run(_, _, _, _)
max_run(flags, v, cur, best) ==
    IF flags = <<>> THEN best
    ELSE LET c == IF Head(flags) = v THEN cur + 1 ELSE 0
         IN max_run(Tail(flags), v, c, Max(best, c))

is_win(df) == [j \in 1..Len(df) |-> df[j].pnl > 0]

EmptyMetrics ==
    [kind |-> "metrics", trade_count |-> 0, wins |-> 0, sharpe |-> SharpeZero]

calculate_metrics(tl, m) ==
    IF tl = <<>>
    THEN IF m = "calculate_portfolio_metrics" THEN EmptyMetrics ELSE None
    ELSE
    LET df == DataFrame(tl, m)
        first == min_date(df, m)
        last == max_date(df)
        equity == equity_from(df, first, last, INITIAL_CAPITAL)
        common ==
           [kind |-> "metrics",
            trade_count |-> Len(df),
            wins |-> Len(SelectSeq(is_win(df), LAMBDA w : w)),
            total_profit |-> SumInts([j \in 1..Len(df) |-> df[j].profit]),
            final_equity |-> equity[Len(equity)],
            days |-> (last - first) \div SecondsPerDay,
            equity |-> equity]
    IN IF m = "calculate_metrics"
       THEN [f \in DOMAIN common \cup {"sharpe"} |->
               IF f = "sharpe" THEN sharpe_if_positive(equity) ELSE common[f]]
       ELSE IF m = "calculate_portfolio_metrics"
       THEN [f \in DOMAIN common \cup {"sharpe"} |->
               IF f = "sharpe" THEN sharpe_unless_zero(equity) ELSE common[f]]
       ELSE [f \in DOMAIN common
                     \cup {"sharpe", "max_win_streak", "max_loss_streak"} |->
               IF f = "sharpe" THEN sharpe_unless_zero(equity)
               ELSE IF f = "max_win_streak"
                    THEN max_run(is_win(df), TRUE, 0, 0)
               ELSE IF f = "max_loss_streak"
                    THEN max_run(is_win(df), FALSE, 0, 0)
               ELSE common[f]]

(* One call of the metrics function on the list trades; the caller calls
   twice with the same list *)
CalculateMetrics ==
    /\ mpc = "call"
    /\ returned' = Append(returned, calculate_metrics(trades, mode))
    /\ trades' = trades_after(trades, DataFrame(trades, mode))
    /\ mpc' = IF Len(returned) + 1 < 2 THEN "call" ELSE "done"
    /\ UNCHANGED exitVars
    /\ UNCHANGED simVars
    /\ UNCHANGED otherVars

(* Inputs of the metrics runs: lists of executed trades in entry_date order,
   each of cost 100,000, over five (entry_date, exit_date) pairs *)
MaxTrades == 3
MetricSpans == {<<1, 1>>, <<1, 2>>, <<1, 63>>, <<2, 2>>, <<2, 63>>}
MetricPnls == {0 - 2, 0, 5}
MetricTrades ==
    {trade_record(position_size_of(INITIAL_CAPITAL),
                  Cand("A", sp[1], sp[2], p)) : sp \in MetricSpans,
                                                 p \in MetricPnls}
MetricLists ==
    {l \in UNION {[1..n -> MetricTrades] : n \in 0..MaxTrades} :
        \A j \in 1..(Len(l) - 1) : l[j].entry_date <= l[j + 1].entry_date}

InitMetrics ==
    /\ mode \in MetricModes
    /\ trades \in MetricLists
    /\ returned = <<>>
    /\ mpc = "call"
    /\ path = <<>>
    /\ sig = [idx |-> 0, buy_price |-> 0, stop_price |-> 0]
    /\ params = [r_mult |-> 0, time_exit |-> 0, trigger_r |-> 0]
    /\ pc = "idle"
    /\ loop = IdleLoop
    /\ result = None
    /\ SimIdle
    /\ OtherIdle

NextMetrics == CalculateMetrics

SpecMetrics == InitMetrics /\ [][NextMetrics]_vars

-----------------------------------------------------------------------------
(* scripts/generate_daily_position_report.py: replay_simulation_with_tracking.
   The routine is run on the list that run_capital_simulation_limited has
   just been given, after that call has returned.  The fields of the daily
   report that are computed from market prices are left out. *)

(* df_cand: the candidates with their dates as Timestamps *)
replay_frame(cands) ==
    [j \in 1..Len(cands) |->
        [cands[j] EXCEPT !.entry_date = to_datetime(@),
                         !.exit_date = to_datetime(@)]]

replay_min_date(df) ==
    CHOOSE d \in {df[j].entry_date : j \in 1..Len(df)} :
        \A j \in 1..Len(df) : d <= df[j].entry_date

replay_max_date(df) ==
    CHOOSE d \in {df[j].exit_date : j \in 1..Len(df)} :
        \A j \in 1..Len(df) : d >= df[j].exit_date

(* step 3: the tests made for one candidate of the day *)
(* a test that passes over a candidate whose symbol is already held *)
ignore_reason_no_pyramiding(positions, cash, cand) ==
    IF Len(positions) >= MAX_POSITIONS THEN "max_positions"
    ELSE IF \E j \in 1..Len(positions) : positions[j].sid = cand.sid
         THEN "no_pyramiding"
    ELSE IF cash < position_size_of(total_equity(cash, positions))
         THEN "insufficient_cash"
    ELSE "none"

ignore_reason(positions, cash, cand) ==
    IF Len(positions) >= MAX_POSITIONS THEN "max_positions"
    ELSE IF cash < position_size_of(total_equity(cash, positions))
         THEN "insufficient_cash"
    ELSE "none"

replay_position(position_size, cand) ==
    [sid |-> cand.sid, entry_date |-> cand.entry_date,
     exit_date |-> cand.exit_date, pnl |-> cand.pnl, cost |-> position_size]

(* Entry of the function up to the date loop *)
ReplayStart ==
    /\ rpc = "call" /\ spc = "done"
    /\ IF candidates = <<>>
       THEN \* pd.DataFrame([]) has no 'entry_date' column: KeyError
            /\ rpc' = "error"
            /\ UNCHANGED <<current_date, replay_cash>>
       ELSE /\ current_date' = replay_min_date(replay_frame(candidates))
            /\ replay_cash' = INITIAL_CAPITAL
            /\ rpc' = "exits"
    /\ replay_positions' = <<>>
    /\ daily_reports' = <<>>
    /\ UNCHANGED <<today_candidates, entries, exits, ignored_signals>>
    /\ UNCHANGED exitVars
    /\ UNCHANGED simVars
    /\ UNCHANGED metricVars
    /\ UNCHANGED <<driverVars, splitVars>>

(* Steps 1 and 2 of one day *)
ReplayExits ==
    /\ rpc = "exits"
    /\ LET due(pos) == pos.exit_date <= current_date
           leaving == SelectSeq(replay_positions, due)
       IN /\ replay_cash' =
                replay_cash
                  + SumInts([j \in 1..Len(leaving) |->
                               leaving[j].cost
                                 + profit_of(leaving[j].cost, leaving[j])])
          /\ exits' = leaving
          /\ replay_positions' =
                SelectSeq(replay_positions, LAMBDA pos : ~due(pos))
    /\ today_candidates' =
          SelectSeq(replay_frame(candidates),
                    LAMBDA c : c.entry_date = current_date)
    /\ entries' = <<>>
    /\ ignored_signals' = <<>>
    /\ rpc' = "entries"
    /\ UNCHANGED <<current_date, daily_reports>>
    /\ UNCHANGED exitVars
    /\ UNCHANGED simVars
    /\ UNCHANGED metricVars
    /\ UNCHANGED <<driverVars, splitVars>>

(* Step 3 for one candidate of the day *)
ReplayEntry ==
    /\ rpc = "entries"
    /\ today_candidates # <<>>
    /\ LET cand == Head(today_candidates)
           reason == ignore_reason(replay_positions, replay_cash, cand)
           position_size ==
               position_size_of(total_equity(replay_cash, replay_positions))
       IN IF reason # "none"
          THEN /\ ignored_signals' =
                     Append(ignored_signals,
                            [sid |-> cand.sid, reason |-> reason])
               /\ UNCHANGED <<replay_cash, replay_positions, entries>>
          ELSE /\ replay_cash' = replay_cash - position_size
               /\ replay_positions' =
                     Append(replay_positions,
                            replay_position(position_size, cand))
               /\ entries' =
                     Append(entries, [sid |-> cand.sid,
                                      position_size |-> position_size])
               /\ UNCHANGED ignored_signals
    /\ today_candidates' = Tail(today_candidates)
    /\ UNCHANGED <<rpc, current_date, exits, daily_reports>>
    /\ UNCHANGED exitVars
    /\ UNCHANGED simVars
    /\ UNCHANGED metricVars
    /\ UNCHANGED <<driverVars, splitVars>>

(* Steps 4 to 6 of one day, and the step of the date loop *)
ReplayReport ==
    /\ rpc = "entries"
    /\ today_candidates = <<>>
    /\ daily_reports' =
          IF replay_positions # <<>> \/ entries # <<>> \/ exits # <<>>
                \/ ignored_signals # <<>>
          THEN Append(daily_reports,
                      [date |-> current_date,
                       total_positions |-> Len(replay_positions),
                       cash_available |-> replay_cash,
                       cash_invested |->
                           SumInts([j \in 1..Len(replay_positions) |->
                                       replay_positions[j].cost]),
                       new_entries |-> entries,
                       exits_count |-> Len(exits),
                       signals_ignored |-> ignored_signals])
          ELSE daily_reports
    /\ IF current_date + SecondsPerDay
             <= replay_max_date(replay_frame(candidates))
       THEN /\ current_date' = current_date + SecondsPerDay
            /\ rpc' = "exits"
       ELSE /\ rpc' = "done"
            /\ UNCHANGED current_date
    /\ UNCHANGED <<replay_cash, replay_positions, today_candidates, entries,
                   exits, ignored_signals>>
    /\ UNCHANGED exitVars
    /\ UNCHANGED simVars
    /\ UNCHANGED metricVars
    /\ UNCHANGED <<driverVars, splitVars>>

(* Inputs of the replay runs: the short lists that are in entry_date order,
   the worked example, and long lists of one symbol's candidates of day 1
   followed by another symbol's candidates of day 2 *)
ReplayLists ==
    {l \in ShortLists :
        \A j \in 1..(Len(l) - 1) : l[j].entry_date <= l[j + 1].entry_date}

ReplayRuns ==
    {Rep(Holder, h) \o Rep(Late, t) :
        h \in 0..MaxRunLen, t \in 0..MaxRunLen}

InitReplay ==
    /\ candidates \in ReplayLists \cup {ExampleList}
                        \cup {r \in ReplayRuns : Len(r) <= MaxRunLen}
    /\ spc = "call"
    /\ ci = 0
    /\ current_cash = 0
    /\ active_positions = <<>>
    /\ executed_trades = <<>>
    /\ equity_log = <<>>
    /\ ExitIdle
    /\ MetricsIdle
    /\ rpc = "call"
    /\ current_date = 0
    /\ replay_cash = 0
    /\ replay_positions = <<>>
    /\ today_candidates = <<>>
    /\ entries = <<>>
    /\ exits = <<>>
    /\ ignored_signals = <<>>
    /\ daily_reports = <<>>
    /\ DriverIdle
    /\ SplitIdle

NextReplay ==
    \/ SimStart
    \/ Release
    \/ Enter
    \/ ReplayStart
    \/ ReplayExits
    \/ ReplayEntry
    \/ ReplayReport

SpecReplay == InitReplay /\ [][NextReplay]_vars

-----------------------------------------------------------------------------
(* backtest_patterns.py: run_capital_simulation(candidates, mode).  It runs
   on the variables of the portfolio simulation; equity_log stays empty. *)
BPModes == {"run_capital_simulation.limited", "run_capital_simulation.unlimited"}

bp_position_size == (INITIAL_CAPITAL * POSITION_SIZE_PCT) \div PctScale

(* release test of step 1 *)
funds_back_same_day(p, today) == p.exit_date <= today

funds_back(p, today) == p.exit_date < today

bp_position(position_size, t) ==
    [exit_date |-> t.exit_date,
     return_cash |-> position_size + profit_of(position_size, t)]

(* Entry of the function: the sort, the whole 'unlimited' branch, and the
   locals of the 'limited' branch *)
BPStart ==
    /\ spc = "call"
    /\ candidates' = SortByEntryDate(candidates)
    /\ active_positions' = <<>>
    /\ ci' = 0
    /\ IF mode = "run_capital_simulation.unlimited"
       THEN /\ executed_trades' =
                  [j \in 1..Len(candidates) |->
                      trade_record(bp_position_size,
                                   SortByEntryDate(candidates)[j])]
            /\ spc' = "done"
            /\ UNCHANGED current_cash
       ELSE /\ executed_trades' = <<>>
            /\ current_cash' = INITIAL_CAPITAL
            /\ spc' = IF candidates = <<>> THEN "done" ELSE "release"
    /\ UNCHANGED equity_log
    /\ UNCHANGED exitVars
    /\ UNCHANGED metricVars
    /\ UNCHANGED otherVars

(* Step 1 of the iteration for candidate t = candidates[ci] *)
BPRelease ==
    /\ spc = "release"
    /\ LET today == At(candidates, ci).entry_date
       IN /\ current_cash' =
                current_cash
                  + SumInts([j \in 1..Len(active_positions) |->
                               IF funds_back(active_positions[j], today)
                               THEN active_positions[j].return_cash ELSE 0])
          /\ active_positions' =
                SelectSeq(active_positions, LAMBDA p : ~funds_back(p, today))
    /\ spc' = "enter"
    /\ UNCHANGED <<candidates, ci, executed_trades, equity_log>>
    /\ UNCHANGED exitVars
    /\ UNCHANGED metricVars
    /\ UNCHANGED otherVars

(* Step 2 of the iteration, and the return after the last candidate *)
BPEnter ==
    /\ spc = "enter"
    /\ LET t == At(candidates, ci)
           position_size == bp_position_size
       IN IF Len(active_positions) < MAX_POSITIONS
               /\ current_cash >= position_size
          THEN /\ current_cash' = current_cash - position_size
               /\ active_positions' =
                     Append(active_positions, bp_position(position_size, t))
               /\ executed_trades' =
                     Append(executed_trades, trade_record(position_size, t))
          ELSE UNCHANGED <<current_cash, active_positions, executed_trades>>
    /\ ci' = ci + 1
    /\ spc' = IF ci + 1 < Len(candidates) THEN "release" ELSE "done"
    /\ UNCHANGED <<candidates, equity_log>>
    /\ UNCHANGED exitVars
    /\ UNCHANGED metricVars
    /\ UNCHANGED otherVars

(* Inputs: the short lists, and long lists made of same-day round trips,
   day-1 candidates that exit on day 2, and day-2 candidates *)
DayTrip == Cand("A", 1, 1, 5)

BPRuns ==
    {Rep(Late, t) \o Rep(DayTrip, a) \o Rep(Winner, w) :
        t \in 0..MaxRunLen, a \in 0..MaxRunLen, w \in 0..MaxRunLen}

InitBP ==
    /\ mode \in BPModes
    /\ candidates \in ShortLists \cup {r \in BPRuns : Len(r) <= MaxRunLen}
    /\ spc = "call"
    /\ ci = 0
    /\ current_cash = 0
    /\ active_positions = <<>>
    /\ executed_trades = <<>>
    /\ equity_log = <<>>
    /\ path = <<>>
    /\ sig = [idx |-> 0, buy_price |-> 0, stop_price |-> 0]
    /\ params = [r_mult |-> 0, time_exit |-> 0, trigger_r |-> 0]
    /\ pc = "idle"
    /\ loop = IdleLoop
    /\ result = None
    /\ MetricsIdle
    /\ OtherIdle

NextBP ==
    \/ BPStart
    \/ BPRelease
    \/ BPEnter

SpecBP == InitBP /\ [][NextBP]_vars

-----------------------------------------------------------------------------
(* The parallel drivers: optimization/optimize_hyperparameters.py,
   optimize_strategy_parallel (for one parameter combination), and
   backtest_patterns.py, main.  Each submits one task per stock group / per
   setting and merges the results in completion order. *)
DriverModes == {"optimize_strategy_parallel", "backtest_patterns.main"}

MIN_TRADES == 10

(* The try / except around future.result() in the as_completed loop *)
(* a loop without the except clause: the worker's exception leaves the driver *)
collect_reraise(results, fut) ==
    IF fut.raised
    THEN [results |-> results, aborted |-> TRUE]
    ELSE [results |-> results \o fut.value, aborted |-> FALSE]

collect(results, fut) ==
    IF fut.raised
    THEN [results |-> results, aborted |-> FALSE]
    ELSE [results |-> results \o fut.value, aborted |-> FALSE]

(* df_res.sort_values(by=['Strategy', 'Sharpe'], ascending=[True, False]) *)
StrategyRank(s) == IF s = "is_cup (Limited)" THEN 1 ELSE 2

RowBefore(a, b) ==
    \/ StrategyRank(a.Strategy) < StrategyRank(b.Strategy)
    \/ a.Strategy = b.Strategy /\ a.Sharpe > b.Sharpe

RECURSIVE InsertRow(_, _)
InsertRow(sorted, r) ==
    IF sorted = <<>> THEN <<r>>
    ELSE IF RowBefore(r, sorted[Len(sorted)])
         THEN Append(InsertRow(SubSeq(sorted, 1, Len(sorted) - 1), r),
                     sorted[Len(sorted)])
         ELSE Append(sorted, r)

RECURSIVE sort_values(_)
sort_values(rows) ==
    IF rows = <<>> THEN <<>>
    ELSE InsertRow(sort_values(SubSeq(rows, 1, Len(rows) - 1)), rows[Len(rows)])

(* A worker task ends, with its return value or with an exception *)
WorkerFinish(g) ==
    /\ dpc = "collect"
    /\ futures[g].state = "running"
    /\ \E r \in BOOLEAN :
          futures' = [futures EXCEPT ![g].state = "finished", ![g].raised = r]
    /\ UNCHANGED <<all_results, dpc, report>>
    /\ UNCHANGED exitVars
    /\ UNCHANGED simVars
    /\ UNCHANGED metricVars
    /\ UNCHANGED <<replayVars, splitVars>>

(* One iteration of the as_completed loop, for a task that has ended *)
Collect(g) ==
    /\ dpc = "collect"
    /\ futures[g].state = "finished"
    /\ LET r == collect(all_results, futures[g])
       IN /\ all_results' = r.results
          /\ dpc' = IF r.aborted THEN "aborted" ELSE dpc
    /\ futures' = [futures EXCEPT ![g].state = "collected"]
    /\ UNCHANGED report
    /\ UNCHANGED exitVars
    /\ UNCHANGED simVars
    /\ UNCHANGED metricVars
    /\ UNCHANGED <<replayVars, splitVars>>

(* After the loop.  optimize_strategy_parallel: the min_trades test and the
   call of run_capital_simulation_limited.  main: the report. *)
DriverProceed ==
    /\ dpc = "collect"
    /\ \A g \in DOMAIN futures : futures[g].state = "collected"
    /\ IF mode = "optimize_strategy_parallel"
       THEN IF Len(all_results) < MIN_TRADES
            THEN /\ dpc' = "done"
                 /\ UNCHANGED <<candidates, spc, report>>
            ELSE /\ candidates' = all_results
                 /\ spc' = "call"
                 /\ dpc' = "simulate"
                 /\ UNCHANGED report
       ELSE /\ report' = IF all_results # <<>> THEN sort_values(all_results)
                         ELSE <<>>
            /\ dpc' = "done"
            /\ UNCHANGED <<candidates, spc>>
    /\ UNCHANGED <<futures, all_results>>
    /\ UNCHANGED <<ci, current_cash, active_positions, executed_trades,
                   equity_log>>
    /\ UNCHANGED exitVars
    /\ UNCHANGED metricVars
    /\ UNCHANGED <<replayVars, splitVars>>

(* The row of final_metrics: of the record calculate_metrics returns only
   its presence and its trade count are kept here; its other fields are
   those of the metrics runs *)
metrics_of(tl) ==
    IF tl = <<>> THEN None
    ELSE [kind |-> "metrics", trade_count |-> Len(tl)]

(* optimize_strategy_parallel after the simulation has returned *)
DriverMetrics ==
    /\ dpc = "simulate"
    /\ spc = "done"
    /\ LET metrics == metrics_of(executed_trades)
       IN report' = IF metrics # None THEN <<metrics>> ELSE <<>>
    /\ dpc' = "done"
    /\ UNCHANGED <<futures, all_results>>
    /\ UNCHANGED exitVars
    /\ UNCHANGED simVars
    /\ UNCHANGED metricVars
    /\ UNCHANGED <<replayVars, splitVars>>

(* Inputs of the driver runs: two tasks.  A stock group returns up to
   MaxGroupLen candidates of one kind; a task of main returns up to two
   result rows. *)
Groups == {1, 2}
MaxGroupLen == 6

GroupSid(g) == IF g = 1 THEN "A" ELSE "B"

GroupSignals(g) ==
    {Rep([c EXCEPT !.sid = GroupSid(g)], n) :
        c \in {DayTrip, Holder, Winner}, n \in 0..MaxGroupLen}

ResultRow(s, sh) == [Strategy |-> s, Sharpe |-> sh]

TaskRows ==
    {<<>>} \cup {<<ResultRow("is_cup (Limited)", sh)>> : sh \in {0, 1}}
           \cup {<<ResultRow("is_cup (Limited)", sh),
                   ResultRow("is_cup (Unlimited)", 1 - sh)>> : sh \in {0, 1}}

InitDriver ==
    /\ mode \in DriverModes
    /\ \E v \in [Groups -> IF mode = "optimize_strategy_parallel"
                           THEN UNION {GroupSignals(g) : g \in Groups}
                           ELSE TaskRows] :
          /\ mode = "optimize_strategy_parallel"
                => \A g \in Groups : v[g] \in GroupSignals(g)
          /\ futures = [g \in Groups |->
                        [state |-> "running", raised |-> FALSE, value |-> v[g]]]
    /\ all_results = <<>>
    /\ dpc = "collect"
    /\ report = <<>>
    /\ path = <<>>
    /\ sig = [idx |-> 0, buy_price |-> 0, stop_price |-> 0]
    /\ params = [r_mult |-> 0, time_exit |-> 0, trigger_r |-> 0]
    /\ pc = "idle"
    /\ loop = IdleLoop
    /\ result = None
    /\ SimIdle
    /\ MetricsIdle
    /\ ReplayIdle
    /\ SplitIdle

NextDriver ==
    \/ \E g \in Groups : WorkerFinish(g)
    \/ \E g \in Groups : Collect(g)
    \/ DriverProceed
    \/ SimStart
    \/ Release
    \/ Enter
    \/ DriverMetrics

SpecDriver == InitDriver /\ [][NextDriver]_vars

-----------------------------------------------------------------------------
(* run_capital_simulation_limited as a function of its argument: the value
   it returns for a given list, by the same steps as SimStart, Release and
   Enter *)
sim_candidate(st, t) ==
    LET today == t.entry_date
        still_active == SelectSeq(st.positions,
                                  LAMBDA p : ~is_released(p, today))
        cash == st.cash
                  + SumInts([j \in 1..Len(st.positions) |->
                               IF is_released(st.positions[j], today)
                               THEN st.positions[j].return_cash ELSE 0])
        position_size == position_size_of(total_equity(cash, still_active))
    IN IF can_enter(still_active, cash, position_size)
       THEN [cash |-> cash - position_size,
             positions |-> Append(still_active, new_position(position_size, t)),
             executed |-> Append(st.executed, trade_record(position_size, t))]
       ELSE [cash |-> cash, positions |-> still_active,
             executed |-> st.executed]

RECURSIVE sim_loop(_, _)
sim_loop(st, cands) ==
    IF cands = <<>> THEN st
    ELSE sim_loop(sim_candidate(st, Head(cands)), Tail(cands))

run_capital_simulation_limited(cands) ==
    IF cands = <<>> THEN <<>>
    ELSE sim_loop([cash |-> INITIAL_CAPITAL, positions |-> <<>>,
                   executed |-> <<>>],
                  SortByEntryDate(cands)).executed

-----------------------------------------------------------------------------
(* ml_enhanced/scripts/prepare_ml_data.py: generate_labels for one signal
   row of one symbol.  p holds the symbol's rows in date order and sig_idx
   is the signal's row; a pnl is the fraction [num, den]. *)

(* simulate_trade_fixed on the rows from the entry row on *)
simulate_trade_fixed(p, entry_idx, buy_price, stop_price, r_mult, time_exit) ==
    LET risk == buy_price - stop_price
    IN IF risk <= 0 THEN [pnl |-> [num |-> 0, den |-> 1], duration |-> 1]
    ELSE
    LET target_price == buy_price + RTimes(risk, r_mult)
        path_len == Min(time_exit, Len(p) - entry_idx)
        hit == FirstOf({k \in 0..(path_len - 1) :
                  \/ At(p, entry_idx + k).low <= stop_price
                  \/ At(p, entry_idx + k).high >= target_price})
        exit_idx == IF hit = Inf THEN path_len - 1 ELSE hit
        exit_price == IF hit = Inf THEN PyAt(SubSeq(p, entry_idx + 1, Len(p)),
                                             exit_idx).close
                      ELSE IF At(p, entry_idx + hit).low <= stop_price
                           THEN stop_price
                      ELSE target_price
    IN [pnl |-> [num |-> exit_price - buy_price, den |-> buy_price],
        duration |-> Max(exit_idx + 1, 1)]

(* the loop of simulate_trade_trailing from day k on *)
RECURSIVE label_trailing_loop(_, _, _, _, _)
label_trailing_loop(st, p, entry_idx, buy_price, trigger_price) ==
    IF st.exit_found \/ st.k >= Len(p) - entry_idx THEN st
    ELSE label_trailing_loop(
            trailing_day(st, At(p, entry_idx + st.k), st.k, buy_price,
                         trigger_price),
            p, entry_idx, buy_price, trigger_price)

simulate_trade_trailing(p, entry_idx, buy_price, stop_price, trigger_r) ==
    LET risk == buy_price - stop_price
    IN IF risk <= 0 THEN [pnl |-> [num |-> 0, den |-> 1], duration |-> 1]
    ELSE
    LET trigger_price == buy_price + RTimes(risk, trigger_r)
        st == label_trailing_loop(
                 [IdleLoop EXCEPT !.current_stop = stop_price], p, entry_idx,
                 buy_price, trigger_price)
        exit_idx == IF st.exit_found THEN st.exit_rel_idx
                    ELSE Len(p) - entry_idx - 1
        exit_price == IF st.exit_found THEN st.raw_exit_price
                      ELSE At(p, entry_idx + exit_idx).close
    IN [pnl |-> [num |-> exit_price - buy_price, den |-> buy_price],
        duration |-> Max(exit_idx, 1)]

(* the entry check: the first later row whose high reaches the buy price *)
label_entry(p, sig_idx, buy) ==
    LET entry_rel == FirstOf({j \in 0..(Len(p) - sig_idx - 2) :
                        At(p, sig_idx + 1 + j).high >= buy})
    IN IF entry_rel = Inf THEN NoEntry ELSE sig_idx + 1 + entry_rel

label_row(name, res) ==
    [name |-> name, actual_return |-> res.pnl, duration |-> res.duration,
     score |-> [num |-> res.pnl.num * 100, den |-> res.pnl.den * res.duration]]

generate_labels(p, sig_idx, buy_price, stop_price) ==
    LET entry_idx == label_entry(p, sig_idx, buy_price)
    IN IF entry_idx = NoEntry THEN None
       ELSE [kind |-> "labels",
             entry_idx |-> entry_idx,
             rows |-> <<label_row("fixed_r2_t20",
                           simulate_trade_fixed(p, entry_idx, buy_price,
                                                stop_price, 20, 20)),
                        label_row("fixed_r3_t20",
                           simulate_trade_fixed(p, entry_idx, buy_price,
                                                stop_price, 30, 20)),
                        label_row("trailing_15r",
                           simulate_trade_trailing(p, entry_idx, buy_price,
                                                   stop_price, 15))>>]

GenerateLabels ==
    /\ pc = "call" /\ mode = "generate_labels"
    /\ result' = generate_labels(path, sig.idx, sig.buy_price, sig.stop_price)
    /\ pc' = "done"
    /\ UNCHANGED <<mode, path, sig, params, loop>>
    /\ UNCHANGED simVars
    /\ UNCHANGED metricVars
    /\ UNCHANGED otherVars

(* Label runs: long price paths on which the high reaches the buy price on
   at most one row, or on two rows in a row *)
InitLabels ==
    /\ mode = "generate_labels"
    /\ \E n \in 1..MaxRows :
          /\ \E a \in 0..n, b \in 0..n :
                /\ b # 0 => (a # 0 /\ b = a + 1)
                /\ path = SparsePath(n, a, b)
          /\ \E i \in 0..(n - 1) :
                sig = [idx |-> i, buy_price |-> 10000, stop_price |-> 9500]
    /\ params = [r_mult |-> DefaultRMult, time_exit |-> MaxTimeExit,
                 trigger_r |-> DefaultTriggerR]
    /\ pc = "call"
    /\ loop = IdleLoop
    /\ result = None
    /\ SimIdle
    /\ MetricsIdle
    /\ OtherIdle

NextLabels == GenerateLabels

SpecLabels == InitLabels /\ [][NextLabels]_vars

-----------------------------------------------------------------------------
(* catboost_enhanced/utils/data_splitter.py: PurgedGroupKFold.split.
   groups holds one date (a day number) per sample; embargo_pct is in
   hundredths. *)
RECURSIVE sorted_seq(_)
sorted_seq(S) ==
    IF S = {} THEN <<>>
    ELSE LET m == CHOOSE x \in S : \A y \in S : x <= y
         IN <<m>> \o sorted_seq(S \ {m})

unique_dates(g) == sorted_seq({g[j] : j \in 1..Len(g)})

embargo_size_of(n_dates, embargo_pct) ==
    Max(1, (n_dates * embargo_pct) \div 100)

(* sample indices (0-based) whose date is in the given dates *)
indices_in(g, dates) ==
    LET D == {dates[j] : j \in 1..Len(dates)}
    IN sorted_seq({j - 1 : j \in {k \in 1..Len(g) : g[k] \in D}})

(* unique_dates[a:b] for 0 <= a *)
date_slice(dates, a, b) ==
    SubSeq(dates, a + 1, Min(b, Len(dates)))

(* Start of the generator *)
SplitStart ==
    /\ kpc = "call"
    /\ fold' = 0
    /\ yielded' = <<>>
    /\ kpc' = "loop"
    /\ UNCHANGED <<groups, cv>>
    /\ UNCHANGED exitVars
    /\ UNCHANGED simVars
    /\ UNCHANGED metricVars
    /\ UNCHANGED <<replayVars, driverVars>>

(* One iteration of the loop over i = fold *)
SplitFold ==
    /\ kpc = "loop"
    /\ fold < cv.n_splits
    /\ LET dates == unique_dates(groups)
           n_dates == Len(dates)
           embargo_size == embargo_size_of(n_dates, cv.embargo_pct)
           test_start_idx == (fold * n_dates) \div cv.n_splits
           test_end_idx == ((fold + 1) * n_dates) \div cv.n_splits
           train_end_idx == test_start_idx - embargo_size
           train_dates == date_slice(dates, 0, train_end_idx)
           test_dates == date_slice(dates, test_start_idx, test_end_idx)
       IN IF train_end_idx <= 0
          THEN UNCHANGED yielded
          ELSE yielded' =
                  Append(yielded,
                         [train_indices |-> indices_in(groups, train_dates),
                          test_indices |-> indices_in(groups, test_dates),
                          train_dates |-> train_dates,
                          test_dates |-> test_dates])
    /\ fold' = fold + 1
    /\ UNCHANGED <<groups, cv, kpc>>
    /\ UNCHANGED exitVars
    /\ UNCHANGED simVars
    /\ UNCHANGED metricVars
    /\ UNCHANGED <<replayVars, driverVars>>

(* The loop is over *)
SplitEnd ==
    /\ kpc = "loop"
    /\ fold >= cv.n_splits
    /\ kpc' = "done"
    /\ UNCHANGED <<groups, cv, fold, yielded>>
    /\ UNCHANGED exitVars
    /\ UNCHANGED simVars
    /\ UNCHANGED metricVars
    /\ UNCHANGED <<replayVars, driverVars>>

(* Inputs of the split runs: up to MaxSamples samples on days 1..MaxDay *)
MaxSamples == 4
MaxDay == 5
SplitCounts == {2, 3, 5}
EmbargoPcts == {5, 40}
EmbargoDays == {1, 2, 20}

InitSplit ==
    /\ groups \in UNION {[1..n -> 1..MaxDay] : n \in 1..MaxSamples}
    /\ cv \in [n_splits : SplitCounts, embargo_pct : EmbargoPcts,
               embargo_days : EmbargoDays]
    /\ fold = 0
    /\ yielded = <<>>
    /\ kpc = "call"
    /\ mode = "PurgedGroupKFold.split"
    /\ path = <<>>
    /\ sig = [idx |-> 0, buy_price |-> 0, stop_price |-> 0]
    /\ params = [r_mult |-> 0, time_exit |-> 0, trigger_r |-> 0]
    /\ pc = "idle"
    /\ loop = IdleLoop
    /\ result = None
    /\ SimIdle
    /\ MetricsIdle
    /\ ReplayIdle
    /\ DriverIdle

NextSplit ==
    \/ SplitStart
    \/ SplitFold
    \/ SplitEnd

SpecSplit == InitSplit /\ [][NextSplit]_vars

-----------------------------------------------------------------------------
(* Properties of the exit and entry runs *)

FixedModes == {"simulate_exit_fixed", "generate_fixed"}
EngineModes == {"simulate_exit_fixed", "simulate_exit_trailing"}

(* The window scanned by a fixed exit that produced a trade, its target, and
   the first candle of the window that touches the stop / the target *)
FixedEntryRow ==
    IF mode = "simulate_exit_fixed" THEN sig.idx
    ELSE resolve_entry(path, sig.idx, sig.buy_price)
FixedEntryPrice ==
    IF mode = "simulate_exit_fixed"
    THEN sig.buy_price + get_tick_size(sig.buy_price)
    ELSE sig.buy_price
FixedTarget ==
    FixedEntryPrice + RTimes(FixedEntryPrice - sig.stop_price, params.r_mult)
FixedWindowEnd ==
    IF params.time_exit = TimeExitNone THEN Len(path)
    ELSE Min(FixedEntryRow + params.time_exit, Len(path))
FirstStopDay ==
    FirstOf({j \in SliceIdx(FixedEntryRow, FixedWindowEnd) :
                 At(path, FixedEntryRow + j).low <= sig.stop_price})
FirstTargetDay ==
    FirstOf({j \in SliceIdx(FixedEntryRow, FixedWindowEnd) :
                 At(path, FixedEntryRow + j).high >= FixedTarget})

(* C1: under the fixed policy, when the first candle that touches the stop
   is also the first candle that touches the target, the trade exits at the
   stop price. *)
C1_SameDayStopWins ==
    (/\ pc = "done"
     /\ mode \in FixedModes
     /\ sig.buy_price > sig.stop_price
     /\ result.kind = "trade"
     /\ FirstStopDay # Inf
     /\ FirstStopDay = FirstTargetDay)
    => result.raw_exit_price = sig.stop_price

(* C4: while the trailing loop runs, current_stop never decreases from one
   processed day to the next, whatever the candles and the indicator
   (NaN included). *)
C4_StopNonDecreasing ==
    [][(pc = "loop" /\ pc' = "loop")
       => loop'.current_stop >= loop.current_stop]_vars

(* Two days processed with trailing active from the first day, whose
   indicator was NaN, and the stop raised above breakeven since *)
C4_Witness ==
    /\ pc = "loop"
    /\ mode = "simulate_exit_trailing"
    /\ loop.k >= 2
    /\ loop.trailing_active
    /\ At(path, loop.entry_abs).high = 11300
    /\ At(path, loop.entry_abs).ma = NaN
    /\ loop.current_stop > sig.buy_price + get_tick_size(sig.buy_price)

(* C8: a signal with buy_price <= stop_price never yields a trade result
   (stated for the runs that scan at least one candle) *)
C8_NoTradeWithoutRisk ==
    (pc = "done" /\ sig.buy_price <= sig.stop_price /\ params.time_exit # 0)
    => result.kind # "trade"

(* C9: the entry row is the first row after the signal row, at most
   ENTRY_WINDOW rows later, whose high reaches buy_price; the trade is priced
   from buy_price; without such a row nothing is produced and nothing fails. *)
EntryRows ==
    {j \in (sig.idx + 1)..Min(sig.idx + ENTRY_WINDOW, Len(path) - 1) :
        At(path, j).high >= sig.buy_price}
FirstEntryRow == CHOOSE j \in EntryRows : \A j2 \in EntryRows : j <= j2

C9_EntryResolution ==
    pc = "done" =>
        IF EntryRows = {} THEN result = None
        ELSE /\ result.kind = "trade"
             /\ result.entry_date = At(date_list(path), FirstEntryRow)
             /\ result.pnl =
                   IF mode = "generate_fixed"
                   THEN [num |-> result.raw_exit_price - sig.buy_price,
                         den |-> sig.buy_price]
                   ELSE calculate_net_pnl(
                            sig.buy_price + get_tick_size(sig.buy_price),
                            result.raw_exit_price
                              - get_tick_size(result.raw_exit_price))

(* The only row that reaches buy_price is the last row of the window *)
C9_Witness ==
    /\ pc = "done"
    /\ result.kind = "trade"
    /\ EntryRows = {sig.idx + ENTRY_WINDOW}
    /\ result.entry_date = At(date_list(path), sig.idx + ENTRY_WINDOW)

(* C10: a result of simulate_exit_fixed / simulate_exit_trailing never exits
   before it enters *)
C10_ExitNotBeforeEntry ==
    (pc = "done" /\ mode \in EngineModes /\ result.kind = "trade")
    => (result.exit_date >= result.entry_date /\ result.duration >= 0)

(* C11: in simulate_exit_fixed with a window that holds the entry candle,
   when no candle of the window entry_idx .. min(entry_idx + time_exit, n) - 1
   touches the stop or the target, the trade exits on the last candle of the
   window at its close; every exit is on a candle no later than
   entry_idx + time_exit - 1. *)
C11_TimeExit ==
    (/\ pc = "done"
     /\ mode = "simulate_exit_fixed"
     /\ sig.idx < Len(path)
     /\ params.time_exit >= 1
     /\ result.kind = "trade")
    => /\ (FirstStopDay = Inf /\ FirstTargetDay = Inf)
            => /\ result.duration = FixedWindowEnd - 1 - sig.idx
               /\ result.exit_date = At(date_list(path), FixedWindowEnd - 1)
               /\ result.raw_exit_price = At(path, FixedWindowEnd - 1).close
       /\ sig.idx + result.duration <= sig.idx + params.time_exit - 1
       /\ result.exit_date = At(date_list(path), sig.idx + result.duration)

(* A time exit on a window cut by time_exit, with a candle left after it *)
C11_Witness ==
    /\ pc = "done"
    /\ mode = "simulate_exit_fixed"
    /\ result.kind = "trade"
    /\ params.time_exit = MaxTimeExit
    /\ sig.idx + params.time_exit < Len(path)
    /\ FirstStopDay = Inf /\ FirstTargetDay = Inf
    /\ result.duration = params.time_exit - 1

(* C12: in simulate_exit_trailing, on the first day with low <= current_stop
   the raw exit price is current_stop, unless that day's high is also below
   current_stop, in which case it is that day's close. *)
C12_GapDownExitsAtClose ==
    (/\ pc = "done"
     /\ mode = "simulate_exit_trailing"
     /\ sig.buy_price > sig.stop_price
     /\ result.kind = "trade"
     /\ loop.exit_found)
    => LET c == At(path, loop.entry_abs + loop.exit_rel_idx)
       IN result.raw_exit_price =
             IF c.high < loop.current_stop THEN c.close ELSE loop.current_stop


(* C13: for every entry_idx < n and every signal with positive risk,
   simulate_exit_trailing terminates and returns a trade without raising;
   when no day from entry_idx to the end of data has low <= current_stop the
   exit is the last available candle at its close. *)
TrailingRisk == sig.buy_price + get_tick_size(sig.buy_price) - sig.stop_price

C13_TrailingTerminates ==
    /\ (mode = "simulate_exit_trailing" /\ pc = "call") ~> (pc = "done")
    /\ [](( /\ pc = "done"
            /\ mode = "simulate_exit_trailing"
            /\ sig.idx < Len(path)
            /\ TrailingRisk > 0)
          => /\ result.kind = "trade"
             /\ ~loop.exit_found
                  => /\ result.exit_date = At(date_list(path), Len(path) - 1)
                     /\ result.raw_exit_price = At(path, Len(path) - 1).close
                     /\ result.duration = Len(path) - 1 - sig.idx)

(* The loop ran over every candle from entry_idx to the end of data, more
   than one, without a stop hit *)
C13_Witness ==
    /\ pc = "done"
    /\ mode = "simulate_exit_trailing"
    /\ result.kind = "trade"
    /\ ~loop.exit_found
    /\ loop.k = Len(path) - sig.idx
    /\ loop.k >= 2
    /\ sig.idx >= 1


(* C14: on each day of simulate_exit_trailing without a stop hit, after the
   trigger step, the indicator step sets current_stop to
   max(current_stop, indicator) only if trailing is active and the indicator
   is not NaN; otherwise it leaves current_stop as the trigger step left it. *)
TrailingRealBuy == sig.buy_price + get_tick_size(sig.buy_price)
TrailingTrigger == TrailingRealBuy + RTimes(TrailingRisk, params.trigger_r)

C14_TrailUpdateRule ==
    [][(/\ pc = "loop"
        /\ mode = "simulate_exit_trailing"
        /\ loop'.k = loop.k + 1)
       => LET c == At(path, loop.entry_abs + loop.k)
              triggered == ~loop.trailing_active /\ c.high >= TrailingTrigger
              active == loop.trailing_active \/ triggered
              before == IF triggered THEN TrailingRealBuy ELSE loop.current_stop
          IN /\ loop'.trailing_active = active
             /\ (active /\ c.ma # NaN)
                   => loop'.current_stop = Max(before, c.ma)
             /\ ~(active /\ c.ma # NaN)
                   => loop'.current_stop = before]_vars

(* A day passed with trailing inactive and an indicator above the stop, which
   stayed where it was *)
C14_Witness ==
    /\ pc = "loop"
    /\ mode = "simulate_exit_trailing"
    /\ loop.k >= 1
    /\ ~loop.trailing_active
    /\ At(path, loop.entry_abs + loop.k - 1).ma > loop.current_stop
    /\ loop.current_stop = sig.stop_price


(* C15: in the trailing branch of generate_trade_candidates, after each day
   without a stop hit on which trailing is active and
   r = (high - buy) / risk - trigger_r > 0, current_stop is the maximum of
   its previous value, the ladder level buy + floor(r) x risk, and the day's
   indicator when it is not NaN. *)
LadderRisk == sig.buy_price - sig.stop_price

C15_LadderRule ==
    [][(/\ pc = "loop"
        /\ mode = "generate_trailing"
        /\ loop'.k = loop.k + 1
        /\ loop'.trailing_active)
       => LET c == At(path, loop.entry_abs + loop.k)
              \* r * risk * RScale
              r_scaled == (c.high - sig.buy_price) * RScale
                             - params.trigger_r * LadderRisk
              floor_r == r_scaled \div (LadderRisk * RScale)
              level == sig.buy_price + floor_r * LadderRisk
          IN r_scaled > 0 =>
                loop'.current_stop =
                   IF c.ma # NaN
                   THEN Max(Max(loop.current_stop, level), c.ma)
                   ELSE Max(loop.current_stop, level)]_vars

(* The stop stands on the first ladder level, one risk above the buy price,
   above breakeven and above the indicator of the day *)
C15_Witness ==
    /\ pc = "loop"
    /\ mode = "generate_trailing"
    /\ loop.k >= 1
    /\ loop.trailing_active
    /\ loop.current_stop = sig.buy_price + LadderRisk
    /\ At(path, loop.entry_abs + loop.k - 1).ma = 9800


(* C16: the pnl returned by simulate_exit_fixed / simulate_exit_trailing is
   (S x (1 - FEE_RATE - TAX_RATE) - B x (1 + FEE_RATE)) / (B x (1 + FEE_RATE))
   with B = buy_price + tick(buy_price), S = raw_exit_price -
   tick(raw_exit_price), and tick(p) = 0.01 for p < 10, 0.05 for p < 50,
   0.1 for p < 100, 0.5 for p < 500, 1.0 for p < 1000, 5.0 otherwise: the
   fee on both legs, the tax on the sell leg only. *)
C16_CostModel ==
    (pc = "done" /\ mode \in EngineModes /\ result.kind = "trade")
    => LET tick(price) == CASE price < 1000 -> 1
                            [] price >= 1000 /\ price < 5000 -> 5
                            [] price >= 5000 /\ price < 10000 -> 10
                            [] price >= 10000 /\ price < 50000 -> 50
                            [] price >= 50000 /\ price < 100000 -> 100
                            [] price >= 100000 -> 500
           B == sig.buy_price + tick(sig.buy_price)
           S == result.raw_exit_price - tick(result.raw_exit_price)
       IN /\ result.pnl.num = S * (RateScale - FEE_RATE - TAX_RATE)
                                 - B * (RateScale + FEE_RATE)
          /\ result.pnl.den = B * (RateScale + FEE_RATE)

(* A buy in the top tick band sold at a loss in the band below *)
C16_Witness ==
    /\ pc = "done"
    /\ result.kind = "trade"
    /\ sig.buy_price = 100000
    /\ result.raw_exit_price = sig.stop_price
    /\ result.pnl.num = (95000 - 100) * 996 - (100000 + 500) * 1001
    /\ result.pnl.den = (100000 + 500) * 1001


-----------------------------------------------------------------------------
(* Properties of the portfolio runs *)

Today == At(candidates, ci).entry_date
OpenCost ==
    SumInts([j \in 1..Len(active_positions) |-> active_positions[j].cost])
Admitted == Len(executed_trades') = Len(executed_trades) + 1

(* C2: never more than MAX_POSITIONS positions open, whatever the list and
   the order of the candidates of one day *)
C2_SlotLimit == Len(active_positions) <= MAX_POSITIONS

(* All slots taken while the cash would still pay for one more position *)
C2_Witness ==
    /\ spc = "enter"
    /\ Len(active_positions) = MAX_POSITIONS
    /\ current_cash >= position_size_of(current_cash + OpenCost)

(* C3 as stated: the equity after each release step equals the value the
   final equity curve holds for that candidate's entry date *)
C3_EquityMatchesFinalCurve ==
    spc = "done" =>
        \A k \in 1..Len(equity_log) :
            equity_log[k] = equity_at(executed_trades, candidates[k].entry_date)

(* C3 amended: after each release step, cash plus the cost of the open
   positions equals INITIAL_CAPITAL plus the profit of the trades executed
   before that step that exit on or before the candidate's entry date *)
C3_EquityConservation ==
    spc = "enter" =>
        /\ current_cash + OpenCost = equity_at(executed_trades, Today)
        /\ equity_log[Len(equity_log)] = current_cash + OpenCost

(* A trade with a non-zero profit was released while a position stays open *)
C3_Witness ==
    /\ spc = "enter"
    /\ active_positions # <<>>
    /\ \E k \in 1..Len(executed_trades) :
          executed_trades[k].exit_date <= Today /\ executed_trades[k].profit # 0

(* C5: before the admission test, exactly the positions with exit_date <=
   entry_date are gone, each paid back once: the open positions are those of
   the executed trades that exit later, and the cash is INITIAL_CAPITAL less
   every cost plus the return of every trade that has exited *)
C5_ReleaseBeforeAdmission ==
    spc = "enter" =>
        /\ active_positions =
              [j \in 1..Len(SelectSeq(executed_trades,
                                      LAMBDA t : t.exit_date > Today)) |->
                 LET t == SelectSeq(executed_trades,
                                    LAMBDA u : u.exit_date > Today)[j]
                 IN [exit_date |-> t.exit_date,
                     return_cash |-> t.cost + t.profit,
                     cost |-> t.cost]]
        /\ current_cash =
              INITIAL_CAPITAL
                - SumInts([j \in 1..Len(executed_trades) |->
                              executed_trades[j].cost])
                + SumInts([j \in 1..Len(executed_trades) |->
                              IF executed_trades[j].exit_date <= Today
                              THEN executed_trades[j].cost
                                     + executed_trades[j].profit
                              ELSE 0])

(* One trade exits on the candidate's entry date and was released, another
   exits later and stays open *)
C5_Witness ==
    /\ spc = "enter"
    /\ \E k \in 1..Len(executed_trades) : executed_trades[k].exit_date = Today
    /\ \E k \in 1..Len(executed_trades) : executed_trades[k].exit_date > Today

(* C17: run_capital_simulation_limited considers the candidates in
   non-decreasing entry_date order, candidates of one entry_date in the order
   of the input list, and executed_trades keeps that order. *)
OnDate(s, d) == SelectSeq(s, LAMBDA t : t.entry_date = d)
EntryDatesOf(s) == {s[j].entry_date : j \in 1..Len(s)}
CandidateOf(r) ==
    [sid |-> r.sid, entry_date |-> r.entry_date, exit_date |-> r.exit_date,
     pnl |-> r.pnl]

(* a is b with some elements left out *)
RECURSIVE IsSubsequence(_, _)
IsSubsequence(a, b) ==
    IF a = <<>> THEN TRUE
    ELSE IF b = <<>> THEN FALSE
    ELSE IF Head(a) = Head(b) THEN IsSubsequence(Tail(a), Tail(b))
    ELSE IsSubsequence(a, Tail(b))

C17_StableEntryOrder ==
    /\ [][(spc = "call" /\ candidates # <<>>)
           => /\ Len(candidates') = Len(candidates)
              /\ \A j \in 1..(Len(candidates') - 1) :
                    candidates'[j].entry_date <= candidates'[j + 1].entry_date
              /\ \A d \in EntryDatesOf(candidates) \cup EntryDatesOf(candidates') :
                    OnDate(candidates', d) = OnDate(candidates, d)]_vars
    /\ [][spc = "enter"
           => /\ At(candidates, ci) = candidates[ci + 1]
              /\ ci' = ci + 1
              /\ candidates' = candidates
              /\ Admitted
                   => CandidateOf(executed_trades'[Len(executed_trades')])
                         = At(candidates, ci)]_vars
    /\ [](spc \in {"release", "enter", "done"}
           => IsSubsequence([j \in 1..Len(executed_trades) |->
                                CandidateOf(executed_trades[j])],
                            SubSeq(candidates, 1,
                                   IF spc = "done" THEN Len(candidates) ELSE ci)))

(* An input that began with a later candidate was put in date order with the
   three candidates of the first date in their input order, and all executed *)
C17_Witness ==
    /\ spc = "done"
    /\ candidates = <<Winner, Loser, Holder, Late>>
    /\ [j \in 1..Len(executed_trades) |-> CandidateOf(executed_trades[j])]
          = candidates

(* C6: a candidate is executed exactly when a slot is free and the cash
   covers the position size after the release step; a rejected candidate
   changes neither the cash, nor the open positions, nor the executed trades *)
C6_AdmissionRule ==
    [][spc = "enter" =>
         LET size == ((current_cash + OpenCost) * POSITION_SIZE_PCT) \div PctScale
             ok == Len(active_positions) < MAX_POSITIONS /\ current_cash >= size
         IN /\ Admitted <=> ok
            /\ Admitted => executed_trades' =
                              Append(executed_trades,
                                     executed_trades'[Len(executed_trades')])
            /\ ~ok => UNCHANGED <<current_cash, active_positions,
                                  executed_trades>>]_vars

(* A candidate was rejected although a slot was free *)
C6_Witness ==
    /\ spc \in {"release", "done"}
    /\ ci > Len(executed_trades)
    /\ Len(active_positions) < MAX_POSITIONS

(* C7: an admitted trade costs POSITION_SIZE_PCT of cash plus open cost as
   they are after the release step, its profit is cost x pnl, and the worked
   example executes both candidates with profits +5,000 and -2,000 *)
C7_SizingAndProfit ==
    [][/\ (spc = "enter" /\ Admitted) =>
            LET r == executed_trades'[Len(executed_trades')]
            IN /\ r.cost = ((current_cash + OpenCost) * POSITION_SIZE_PCT)
                              \div PctScale
               /\ r.profit = (r.cost * At(candidates, ci).pnl) \div PctScale
               /\ current_cash' = current_cash - r.cost
       /\ (spc' = "done" /\ candidates' = ExampleList) =>
            /\ Len(executed_trades') = 2
            /\ executed_trades'[1].profit = 5000
            /\ executed_trades'[2].profit = 0 - 2000]_vars

C7_Witness ==
    /\ spc = "done"
    /\ candidates = ExampleList
    /\ Len(executed_trades) = 2
    /\ executed_trades[1].cost = 100000 /\ executed_trades[1].profit = 5000
    /\ executed_trades[2].cost = 100000 /\ executed_trades[2].profit = 0 - 2000

-----------------------------------------------------------------------------
(* Properties of the metrics runs *)

(* the list in exit_date order *)
RECURSIVE InsertByExitDate(_, _)
InsertByExitDate(sorted, t) ==
    IF sorted = <<>> THEN <<t>>
    ELSE IF t.exit_date < sorted[Len(sorted)].exit_date
         THEN Append(InsertByExitDate(SubSeq(sorted, 1, Len(sorted) - 1), t),
                     sorted[Len(sorted)])
         ELSE Append(sorted, t)

RECURSIVE SortByExitDate(_)
SortByExitDate(s) ==
    IF s = <<>> THEN <<>>
    ELSE InsertByExitDate(SortByExitDate(SubSeq(s, 1, Len(s) - 1)), s[Len(s)])

DistinctExitDates ==
    \A j \in 1..Len(trades), k \in 1..Len(trades) :
        j # k => trades[j].exit_date # trades[k].exit_date

(* C18: calculate_metrics of backtest_patterns reports as Max Win Streak and
   Max Loss Streak the longest runs of consecutive winning (pnl > 0) and
   non-winning trades of the executed trades ordered by exit date (stated
   for lists whose exit dates differ, so that the order is unique). *)
C18_StreaksByExitDate ==
    (/\ mpc = "done"
     /\ mode = "backtest_patterns.calculate_metrics"
     /\ trades # <<>>
     /\ DistinctExitDates)
    => /\ returned[1].max_win_streak =
             max_run(is_win(SortByExitDate(trades)), TRUE, 0, 0)
       /\ returned[1].max_loss_streak =
             max_run(is_win(SortByExitDate(trades)), FALSE, 0, 0)

(* C19: calculate_metrics / calculate_portfolio_metrics return sharpe = 0
   if and only if the daily return series of the equity curve has zero
   variance, that is, if and only if no daily return differs from another. *)
C19_SharpeZeroIffZeroVariance ==
    (/\ mpc = "done"
     /\ mode \in {"calculate_metrics", "calculate_portfolio_metrics"}
     /\ trades # <<>>)
    => (returned[1].sharpe = SharpeZero
          <=> \A k \in 1..Len(returned[1].equity) :
                 returned[1].equity[k] = returned[1].equity[1])

(* C20: two calls of calculate_metrics with the same executed-trades list
   return identical records, and a call leaves the list and every record in
   it unchanged. *)
C20_MetricsPure ==
    /\ [][mode = "calculate_metrics" => trades' = trades]_vars
    /\ []((mode = "calculate_metrics" /\ Len(returned) = 2)
            => returned[1] = returned[2])

(* Two calls on a list of several trades whose equity curve moves *)
C20_Witness ==
    /\ mpc = "done"
    /\ mode = "calculate_metrics"
    /\ Len(returned) = 2
    /\ Len(trades) = MaxTrades
    /\ returned[2].kind = "metrics"
    /\ returned[2].sharpe.sign # 0
    /\ returned[2].final_equity # INITIAL_CAPITAL


-----------------------------------------------------------------------------
(* C22: simulate_exit_fixed and simulate_exit_trailing called with an empty
   price path (empty arrays, or an entry_idx with no candle at or after it)
   end in an error and never return a trade result. *)
EmptyPathCall == mode \in EngineModes /\ sig.idx >= Len(path)

C22_EmptyPathFails ==
    (pc = "done" /\ EmptyPathCall) => result = Error


(* C30: in simulate_exit_trailing, once trailing_active is true current_stop
   is at least real_buy_price on every later day, so a stop-hit exit after
   activation has raw_exit_price >= the slippage-adjusted entry price; while
   trailing is not active current_stop is the initial stop_price. *)
TrailingRunning ==
    /\ mode = "simulate_exit_trailing"
    /\ pc \in {"loop", "done"}
    /\ TrailingRisk > 0

C30_BreakevenAfterActivation ==
    TrailingRunning =>
       /\ loop.trailing_active => loop.current_stop >= TrailingRealBuy
       /\ ~loop.trailing_active => loop.current_stop = sig.stop_price
       /\ (pc = "done" /\ loop.exit_found /\ loop.trailing_active)
             => /\ result.kind = "trade"
                /\ result.raw_exit_price = loop.current_stop
                /\ result.raw_exit_price >= TrailingRealBuy

(* A stop hit on a day after the activation day, filled at breakeven or above *)
C30_Witness ==
    /\ TrailingRunning
    /\ pc = "done"
    /\ loop.exit_found
    /\ loop.trailing_active
    /\ loop.exit_rel_idx >= 1
    /\ result.kind = "trade"
    /\ result.raw_exit_price >= TrailingRealBuy


-----------------------------------------------------------------------------
(* C29: in run_capital_simulation_limited, current_cash is never negative
   after any step, for every candidate list whose pnl values are all >= -1
   (-100 percent). *)
NoPnlBelowTotalLoss ==
    \A j \in 1..Len(candidates) : candidates[j].pnl >= 0 - PctScale

C29_CashNeverNegative ==
    NoPnlBelowTotalLoss => current_cash >= 0

(* All cash is committed, and a total loss has just been released with a
   return of nothing *)
C29_Witness ==
    /\ NoPnlBelowTotalLoss
    /\ spc = "enter"
    /\ current_cash = 0
    /\ active_positions # <<>>
    /\ \E j \in 1..Len(executed_trades) :
          /\ executed_trades[j].pnl = 0 - PctScale
          /\ executed_trades[j].exit_date <= Today


-----------------------------------------------------------------------------
(* Properties of the replay runs *)

(* The admissions of the replay, day after day, and those of
   run_capital_simulation_limited: symbol, entry date, size *)
RECURSIVE ReplayAdmissions(_)
ReplayAdmissions(reports) ==
    IF reports = <<>> THEN <<>>
    ELSE ReplayAdmissions(SubSeq(reports, 1, Len(reports) - 1))
           \o [j \in 1..Len(reports[Len(reports)].new_entries) |->
                 [sid |-> reports[Len(reports)].new_entries[j].sid,
                  entry_date |-> reports[Len(reports)].date,
                  position_size |->
                      reports[Len(reports)].new_entries[j].position_size]]

EngineAdmissions ==
    [j \in 1..Len(executed_trades) |->
        [sid |-> executed_trades[j].sid,
         entry_date |-> to_datetime(executed_trades[j].entry_date),
         position_size |-> executed_trades[j].cost]]

(* C28: on a candidate list in entry_date order, lists with
   entry_date = exit_date included, replay_simulation_with_tracking admits
   the same candidates in the same order and with the same position sizes
   as run_capital_simulation_limited. *)
C28_ReplayMatchesEngine ==
    (spc = "done" /\ rpc = "done")
       => ReplayAdmissions(daily_reports) = EngineAdmissions


(* C24: admission never depends on the candidate's symbol.  In
   run_capital_simulation_limited and in replay_simulation_with_tracking a
   candidate whose symbol already has an open position is admitted exactly
   when the slot and cash conditions hold. *)
EngineSymbolOpen ==
    \E j \in 1..Len(executed_trades) :
        /\ executed_trades[j].sid = At(candidates, ci).sid
        /\ executed_trades[j].exit_date > Today

ReplaySymbolOpen ==
    \E j \in 1..Len(replay_positions) :
        replay_positions[j].sid = Head(today_candidates).sid

EngineSlotAndCash ==
    /\ Len(active_positions) < MAX_POSITIONS
    /\ current_cash >= position_size_of(OpenCost + current_cash)

ReplayOpenCost ==
    SumInts([j \in 1..Len(replay_positions) |-> replay_positions[j].cost])

ReplaySlotAndCash ==
    /\ Len(replay_positions) < MAX_POSITIONS
    /\ replay_cash >= position_size_of(ReplayOpenCost + replay_cash)

ReplayAdmitted == Len(replay_positions') = Len(replay_positions) + 1

C24_NoSymbolDependence ==
    [][/\ (spc = "enter" /\ spc' # "enter" /\ EngineSymbolOpen)
             => (Admitted <=> EngineSlotAndCash)
       /\ (rpc = "entries" /\ today_candidates # <<>>
             /\ today_candidates' # today_candidates /\ ReplaySymbolOpen)
             => (ReplayAdmitted <=> ReplaySlotAndCash)]_vars

(* Both routines hold two open positions on one symbol *)
C24_Witness ==
    /\ rpc = "entries"
    /\ \E j, k \in 1..Len(replay_positions) :
          j # k /\ replay_positions[j].sid = replay_positions[k].sid
    /\ \E j, k \in 1..Len(executed_trades) :
          /\ j < k
          /\ executed_trades[j].sid = executed_trades[k].sid
          /\ executed_trades[j].exit_date > executed_trades[k].entry_date


-----------------------------------------------------------------------------
(* Properties of backtest_patterns.run_capital_simulation *)

(* C25: in run_capital_simulation (mode 'limited') funds come back the day
   after exit.  When a candidate with entry date d is considered, every
   executed trade with exit_date >= d still holds its slot and its
   return_cash, and every executed trade with exit_date < d has given both
   back. *)
BPHeld == {j \in 1..Len(executed_trades) : executed_trades[j].exit_date >= Today}
BPBack == {j \in 1..Len(executed_trades) : executed_trades[j].exit_date < Today}

C25_FundsBackNextDay ==
    (mode = "run_capital_simulation.limited" /\ spc = "enter")
       => /\ Len(active_positions) = Cardinality(BPHeld)
          /\ current_cash =
               INITIAL_CAPITAL
                 - SumInts([j \in 1..Len(executed_trades) |->
                               executed_trades[j].cost])
                 + SumInts([j \in 1..Len(executed_trades) |->
                               IF j \in BPBack
                               THEN executed_trades[j].cost
                                      + executed_trades[j].profit
                               ELSE 0])

(* A day-2 candidate is considered while a position that exits on day 2 is
   still held and one that exited on day 1 has been given back *)
C25_Witness ==
    /\ mode = "run_capital_simulation.limited"
    /\ spc = "enter"
    /\ \E j \in BPHeld : executed_trades[j].exit_date = Today
    /\ BPBack # {}
    /\ Len(active_positions) = Cardinality(BPHeld)


-----------------------------------------------------------------------------
(* Properties of the parallel drivers *)

CountIn(s, x) == Cardinality({j \in 1..Len(s) : s[j] = x})

SamePermutation(a, b) ==
    /\ Len(a) = Len(b)
    /\ \A j \in 1..Len(a) : CountIn(a, a[j]) = CountIn(b, a[j])

(* The results of the tasks that returned, in submission order *)
RECURSIVE ReturnedUpTo(_)
ReturnedUpTo(g) ==
    IF g = 0 THEN <<>>
    ELSE ReturnedUpTo(g - 1)
           \o (IF futures[g].raised THEN <<>> ELSE futures[g].value)

AllCollected == \A g \in DOMAIN futures : futures[g].state = "collected"

(* C21: in optimize_strategy_parallel and backtest_patterns.main an
   exception raised by a worker task never aborts the batch: the driver never
   leaves the loop by the exception, once every task is collected the merged
   list holds the results of every task that returned, and the steps after
   the loop (portfolio simulation, report) work on that list. *)
C21_WorkerFailureNeverAborts ==
    /\ dpc # "aborted"
    /\ (dpc \in {"collect", "simulate", "done"} /\ futures # <<>> /\ AllCollected)
          => SamePermutation(all_results, ReturnedUpTo(Cardinality(Groups)))
    /\ dpc \in {"simulate", "done"} => AllCollected
    /\ (dpc = "simulate" /\ spc # "call")
          => SamePermutation(candidates, all_results)
    /\ (dpc = "done" /\ mode = "backtest_patterns.main")
          => SamePermutation(report, all_results)

(* One task raised, the other returned, and the run went on to the
   simulation or wrote the report with the other task's results *)
C21_Witness ==
    /\ \E g, h \in Groups :
          /\ futures[g].raised
          /\ ~futures[h].raised /\ futures[h].value # <<>>
    /\ \/ dpc = "simulate" /\ spc = "done" /\ executed_trades # <<>>
       \/ dpc = "done" /\ mode = "backtest_patterns.main" /\ report # <<>>


(* C27: the executed trades of optimize_strategy_parallel for a parameter
   combination do not depend on the completion order of the worker futures:
   whatever order the per-group lists were merged in, the simulation returns
   the executed trades, with the costs and profits, that it returns for the
   lists merged in submission order (compared without regard to order). *)
C27_CompletionOrderIrrelevant ==
    (mode = "optimize_strategy_parallel" /\ dpc = "simulate" /\ spc = "done")
       => SamePermutation(executed_trades,
                          run_capital_simulation_limited(
                             ReturnedUpTo(Cardinality(Groups))))

(* The function agrees with the step-by-step run on the merged list *)
SimFunctionAgrees ==
    spc = "done" => executed_trades = run_capital_simulation_limited(candidates)


-----------------------------------------------------------------------------
(* Properties of the label runs *)

(* C26: generate_labels resolves an entry for a signal only on a row within
   30 trading days after the signal row (the first row there whose
   high >= buy_price); a signal whose first such row is later produces no
   label row. *)
C26_LabelEntryWithinWindow ==
    (mode = "generate_labels" /\ pc = "done" /\ result.kind = "labels")
       => result.entry_idx <= sig.idx + ENTRY_WINDOW


-----------------------------------------------------------------------------
(* Properties of the split runs *)

(* C23: for every fold yielded by PurgedGroupKFold.split, whatever the group
   dates, n_splits and embargo_pct, the last train date plus embargo_days is
   not after the first test date. *)
C23_EmbargoDaysHonoured ==
    \A f \in 1..Len(yielded) :
        yielded[f].test_dates # <<>>
           => yielded[f].train_dates[Len(yielded[f].train_dates)]
                 + cv.embargo_days
                <= yielded[f].test_dates[1]

====
